---------------------------- MODULE Spec2Model ----------------------------
(***************************************************************************)
(* A model of the widget / group / focus layer of the engine:              *)
(*   engine/gui/gui.py      Register, Gui, Widget, WidgetGroup, Carrier     *)
(*   engine/gui/widgets.py  sliders, inputs, FloatingWindow                 *)
(*   engine/events.py       Mouse                                           *)
(*                                                                         *)
(* Spec         the Gui registry: activate / deactivate / focus / release, *)
(*              the per-frame input dispatch with its handlers, render     *)
(* ReleaseSpec  the registry under release_widget with an event handler    *)
(* MouseSpec    Mouse.update over raw hold states of the five buttons      *)
(* RegisterSpec Gui.register and the widgets that bind registers           *)
(* WidgetSpec   the widgets of one group over frames of input              *)
(* SliderSpec   one slider and its register                                *)
(* NumericSpec  one NumericInput and its register                          *)
(* LimitsSpec   one NumericInput with limits under value assignments       *)
(* InputSpec    inputs that are edited and cancelled, sharing a register   *)
(* HoldSpec     a slider of the main group under a FloatingWindow          *)
(* DropdownSpec one Dropdown                                               *)
(* WindowSpec   one FloatingWindow under the mouse                         *)
(* MachineSpec  engine/state_machine.py, StateMachine                      *)
(* TimerSpec    engine/timing.py, Timer and Clock                          *)
(***************************************************************************)
EXTENDS Integers, Sequences, FiniteSets, TLC

VARIABLES
    active_groups,  \* Gui._active_groups
    focused,        \* Gui._focused
    switch_value,   \* TextInput._switch_register.value of every text input
    mouse,          \* Mouse: _hold, _temp, _click, _release per button
    last,           \* the call made by the last step, with its arguments
    dispatched,     \* handlers invoked by the last Gui.events: <<depth, item>>
    replays,        \* re-entries of Gui.events during the last Gui.events
    painted,        \* groups painted by the last Gui.render, in paint order
    registers,      \* Gui._registers: name -> cell (0: no such name)
    cells,          \* the Register objects created so far: cell -> value
    widgets,        \* the slider, input, label and switch widgets built so far
    dropdown,       \* the Dropdown: its item count and hovered index
    floating,       \* a FloatingWindow's rectangles and the pointer that drags it
    machine,        \* a StateMachine: _states, _active, _last and the hooks called
    timer           \* a Clock with one Timer

vars == <<active_groups, focused, switch_value, mouse, last, dispatched,
          replays, painted, registers, cells, widgets, dropdown, floating,
          machine, timer>>

\* the state outside the registry of groups and focus
nonGuiVars ==
    <<mouse, registers, cells, widgets, dropdown, floating, machine, timer>>

guiVars == <<active_groups, focused, switch_value, dispatched, replays,
             painted>>

regVars == <<registers, cells, widgets>>

\* the state machine and the clock
loopVars == <<machine, timer>>

---------------------------------------------------------------------------
(* The universe of the registry. *)

\* the groups registered with the Gui: one plain WidgetGroup and two
\* FloatingWindows (a FloatingWindow is a WidgetCarrier, hence a WidgetGroup)
Windows == {"winA", "winB"}

Groups == {"main"} \cup Windows

\* the widgets that ask for focus: one TextInput, child of winA
TextInputs == {"text"}

Widgets == TextInputs

Items == Groups \cup Widgets

\* the widgets bound to registers: at most one per slot, w1 built before w2
Slots == {"w1", "w2"}

\* the group of the widgets bound to registers
Panel == "panel"

\* WidgetGroup._widgets, restricted to the widgets above
WidgetsOf(g) ==
    IF g = "winA" THEN {"text"} ELSE IF g = Panel THEN Slots ELSE {}

\* the iteration order of a group's widgets and of a focus set
WidgetTie == <<"text">>

\* the default layer of a widget
WidgetLayer == 1

\* the layer a focused FloatingWindow reports
FloatLayer == -1

\* WidgetGroup._layer: the main group is built above the windows, which tie
GroupLayer(g) == IF g = "main" THEN 2 ELSE 1

\* nested Gui.events calls followed before the model gives up
MaxDepth == 3

\* the buttons pygame.mouse.get_pressed(num_buttons=5) reports
NumButtons == 5

Buttons == 0 .. (NumButtons - 1)

Keys == {"", "RETURN", "ESCAPE"}

Regions == {"out", "body", "header", "close"}

---------------------------------------------------------------------------
(* Mouse *)

MouseInitial ==
    [hold    |-> [b \in Buttons |-> FALSE],
     temp    |-> [b \in Buttons |-> FALSE],
     click   |-> [b \in Buttons |-> FALSE],
     release |-> [b \in Buttons |-> FALSE]]

\* int(True) - int(False) of Python
BoolInt(b) == IF b THEN 1 ELSE 0

\* a mutant of Click: any change of the hold state counts as a press
ClickAnyChange(current, lst) == BoolInt(current) - BoolInt(lst) # 0

Click(current, lst) == BoolInt(current) - BoolInt(lst) = 1

ReleaseEdge(current, lst) == BoolInt(current) - BoolInt(lst) = -1

\* Mouse.update with pygame.mouse.get_pressed() = raw
MouseUpdate(m, raw) ==
    [hold    |-> raw,
     temp    |-> raw,
     click   |-> [b \in Buttons |-> Click(raw[b], m.temp[b])],
     release |-> [b \in Buttons |-> ReleaseEdge(raw[b], m.temp[b])]]

\* Mouse.__getitem__
MouseGet(m, button, mode) ==
    CASE mode = "press"   -> m.click[button]
      [] mode = "hold"    -> m.hold[button]
      [] mode = "release" -> m.release[button]

---------------------------------------------------------------------------
(* Gui: the registry state is passed as a record through the handlers. *)

GuiState ==
    [active |-> active_groups, focused |-> focused, switch |-> switch_value,
     log |-> <<>>, replays |-> 0, overflow |-> FALSE]

\* a mutant of IsActive: every item counts as active
IsActiveAlways(s, item) == TRUE

IsActive(s, item) ==
    IF item \in Groups
    THEN item \in s.active
    ELSE \E g \in s.active : item \in WidgetsOf(g)

IsFocused(s, item) ==
    IF item \in Groups
    THEN item \in s.focused \/ \E w \in WidgetsOf(item) : w \in s.focused
    ELSE item \in s.focused

ActivateGroup(s, gs) == [s EXCEPT !.active = @ \cup gs]

\* a mutant of DeactivateGroup: the groups are released as well
DeactivateGroupReleases(s, gs) ==
    [s EXCEPT !.active = @ \ gs, !.focused = @ \ gs]

DeactivateGroup(s, gs) == [s EXCEPT !.active = @ \ gs]

\* a mutant of FocusWidget: contention is not checked
FocusWidgetAlwaysOverwrite(s, item, overwrite) ==
    IF IsActive(s, item) THEN [s EXCEPT !.focused = {item}] ELSE s

\* a mutant of FocusWidget: the item is added to the focus set
FocusWidgetAdd(s, item, overwrite) ==
    IF (s.focused = {} \/ overwrite) /\ IsActive(s, item)
    THEN [s EXCEPT !.focused = @ \cup {item}]
    ELSE s

FocusWidget(s, item, overwrite) ==
    IF (s.focused = {} \/ overwrite) /\ IsActive(s, item)
    THEN [s EXCEPT !.focused = {item}]
    ELSE s

\* a mutant of Layer: the configured layer, whatever holds the focus
LayerConfigured(s, item) ==
    IF item \in Groups THEN GroupLayer(item) ELSE WidgetLayer

\* the effective layer: FloatingWindow.layer, WidgetGroup.layer, Widget.layer
Layer(s, item) ==
    IF item \in Windows
    THEN IF IsFocused(s, item) THEN FloatLayer ELSE GroupLayer(item)
    ELSE IF item \in Groups THEN GroupLayer(item) ELSE WidgetLayer

\* position of x in the sequence q (q holds every item once)
IndexOf(q, x) == CHOOSE i \in 1 .. Len(q) : q[i] = x

RECURSIVE SortedDesc(_, _, _)
\* sorted(S, key=lambda g: g.layer, reverse=True): every key is read before
\* any handler runs; items of equal layer keep the iteration order of the
\* set, which the sequence tie stands for
SortedDesc(S, key, tie) ==
    IF S = {} THEN <<>>
    ELSE LET first == CHOOSE x \in S : \A y \in S :
                          \/ key[x] > key[y]
                          \/ key[x] = key[y] /\ IndexOf(tie, x) <= IndexOf(tie, y)
         IN  <<first>> \o SortedDesc(S \ {first}, key, tie)

\* a mutant of Order: the layers are not read
OrderUnsorted(s, S, tie) == SortedDesc(S, [x \in S |-> 0], tie \o WidgetTie)

Order(s, S, tie) == SortedDesc(S, [x \in S |-> Layer(s, x)], tie \o WidgetTie)

\* Gui.release_widget without an event handler
Unfocus(s, item) ==
    IF item \in s.focused THEN [s EXCEPT !.focused = @ \ {item}] ELSE s

RECURSIVE GuiEvents(_, _, _, _)
RECURSIVE ReleaseWidget(_, _, _, _, _, _)
RECURSIVE FloatingWindowEvents(_, _, _, _, _)
RECURSIVE WidgetGroupEvents(_, _, _, _, _)
RECURSIVE DispatchAll(_, _, _, _, _)

\* a mutant of ReleaseWidget: the event handler is ignored
ReleaseWidgetNoReplay(s, item, handler, snap, tie, depth) == Unfocus(s, item)

\* a mutant of ReleaseWidget: the input is dispatched again whenever an event
\* handler was passed, also when the item did not hold the focus
ReleaseWidgetAlwaysReplays(s, item, handler, snap, tie, depth) ==
    IF handler
    THEN IF depth >= MaxDepth
         THEN [Unfocus(s, item) EXCEPT !.overflow = TRUE]
         ELSE GuiEvents([Unfocus(s, item) EXCEPT !.replays = @ + 1],
                        snap, tie, depth + 1)
    ELSE Unfocus(s, item)

\* Gui.release_widget; handler tells if an event handler was passed
ReleaseWidget(s, item, handler, snap, tie, depth) ==
    IF item \in s.focused
    THEN LET s1 == Unfocus(s, item)
         IN  IF handler
             THEN IF depth >= MaxDepth
                  THEN [s1 EXCEPT !.overflow = TRUE]
                  ELSE GuiEvents([s1 EXCEPT !.replays = @ + 1], snap, tie, depth + 1)
             ELSE s1
    ELSE s

\* TextInput.activate
TextInputActivate(s, t) ==
    FocusWidget([s EXCEPT !.switch[t] = TRUE], t, FALSE)

\* TextInput.deactivate
TextInputDeactivate(s, t, snap, tie, depth) ==
    ReleaseWidget([s EXCEPT !.switch[t] = FALSE], t, FALSE, snap, tie, depth)

\* TextInput.events, as far as it reads or writes the registry
TextInputEvents(s, t, snap, tie, depth) ==
    LET hovered == snap.hov[t]
        s1 == IF snap.press
              THEN IF hovered /\ ~s.switch[t]
                   THEN TextInputActivate(s, t)
                   ELSE TextInputDeactivate(s, t, snap, tie, depth)
              ELSE s
    IN  IF s1.switch[t]
        THEN IF snap.key \in {"RETURN", "ESCAPE"}
             THEN TextInputDeactivate(s1, t, snap, tie, depth)
             ELSE s1
        ELSE s1

RECURSIVE ChildrenEvents(_, _, _, _, _)
\* the loop of WidgetGroup.events over the widgets in q
ChildrenEvents(s, q, snap, tie, depth) ==
    IF q = <<>> THEN s
    ELSE ChildrenEvents(TextInputEvents(s, Head(q), snap, tie, depth),
                        Tail(q), snap, tie, depth)

\* WidgetGroup.events
WidgetGroupEvents(s, g, snap, tie, depth) ==
    ChildrenEvents(s,
                   SortedDesc(WidgetsOf(g), [w \in WidgetsOf(g) |-> WidgetLayer], WidgetTie),
                   snap, tie, depth)

\* FloatingWindow.events, as far as it reads or writes the registry
FloatingWindowEvents(s, w, snap, tie, depth) ==
    LET s1 == WidgetGroupEvents(s, w, snap, tie, depth)
        mouseclick == snap.press
        hovered == snap.at[w] = "body"
        close_hovered == snap.at[w] = "close"
        header_hovered == snap.at[w] \in {"header", "close"}
        close_pressed == close_hovered /\ mouseclick
        header_pressed == header_hovered /\ mouseclick
        pressed == (hovered /\ mouseclick) \/ header_pressed
        pressed_elsewhere == ~pressed /\ mouseclick
        s2 == IF close_pressed
              THEN DeactivateGroup(ReleaseWidget(s1, w, FALSE, snap, tie, depth), {w})
              ELSE s1
        s3 == IF pressed THEN FocusWidget(s2, w, TRUE) ELSE s2
    IN  IF pressed_elsewhere
        THEN ReleaseWidget(s3, w, TRUE, snap, tie, depth)
        ELSE s3

\* group.events(event_handler) of the loop of Gui.events
ItemEvents(s, item, snap, tie, depth) ==
    LET s1 == [s EXCEPT !.log = Append(@, <<depth, item>>)]
    IN  IF item \in Windows THEN FloatingWindowEvents(s1, item, snap, tie, depth)
        ELSE IF item \in Groups THEN WidgetGroupEvents(s1, item, snap, tie, depth)
        ELSE TextInputEvents(s1, item, snap, tie, depth)

\* the loop of Gui.events over the sorted list q
DispatchAll(s, q, snap, tie, depth) ==
    IF q = <<>> THEN s
    ELSE DispatchAll(ItemEvents(s, Head(q), snap, tie, depth),
                     Tail(q), snap, tie, depth)

\* a mutant of Targets: focus does not gate the dispatch
TargetsAllActive(s) == s.active

\* the set Gui.events iterates over
Targets(s) == IF s.focused # {} THEN s.focused ELSE s.active

\* Gui.events
GuiEvents(s, snap, tie, depth) ==
    DispatchAll(s, Order(s, Targets(s), tie), snap, tie, depth)

\* a mutant of RenderOrder: only what receives input is painted
RenderOrderTargets(s, tie) == Order(s, Targets(s) \cap Groups, tie)

\* the groups Gui.render paints, in paint order
RenderOrder(s, tie) == Order(s, s.active, tie)

---------------------------------------------------------------------------
(* Actions of the registry *)

RECURSIVE Perms(_)
Perms(S) ==
    IF S = {} THEN {<<>>}
    ELSE UNION {{<<x>> \o p : p \in Perms(S \ {x})} : x \in S}

\* the iteration orders of the registered groups that can tell two sorts
\* apart: sorting is stable, so only the order of groups constructed with the
\* same layer matters
TieOrders ==
    {p \in Perms(Groups) :
        \A i, j \in 1 .. Len(p) : i < j => GroupLayer(p[i]) >= GroupLayer(p[j])}

(***************************************************************************)
(* Register values.  A Register holds any Python value; the values that    *)
(* occur are None, bool, int, float and str.  A value is a record: t is    *)
(* the type, n / d the number (a reduced fraction, d > 0) and s the        *)
(* characters of a str.  bool and int are exact; a float is a binary       *)
(* floating point number with a significand of Precision bits, and every   *)
(* float operation returns the exact result rounded to the nearest such    *)
(* number, ties to even (IEEE 754 with a narrower significand and no       *)
(* exponent limits).                                                       *)
(***************************************************************************)
Precision == 8

NoneV == [t |-> "none", n |-> 0, d |-> 1, s |-> <<>>]

Abs(x) == IF x < 0 THEN -x ELSE x

RECURSIVE GCD(_, _)
GCD(a, b) == IF b = 0 THEN a ELSE GCD(b, a % b)

RECURSIVE Pow2(_)
Pow2(k) == IF k = 0 THEN 1 ELSE 2 * Pow2(k - 1)

RECURSIVE Pow10(_)
Pow10(k) == IF k = 0 THEN 1 ELSE 10 * Pow10(k - 1)

\* the exact number n / d, d > 0
Num(n, d) ==
    LET g == GCD(Abs(n), d)
    IN  [t |-> "num", n |-> n \div g, d |-> d \div g, s |-> <<>>]

BoolV(b) == [t |-> "bool", n |-> BoolInt(b), d |-> 1, s |-> <<>>]

Str(chars) == [t |-> "str", n |-> 0, d |-> 1, s |-> chars]

IsNumber(v) == v.t \in {"num", "bool"}

\* the nearest integer to n / d, ties to the even one (n >= 0, d > 0)
RoundHalfEven(n, d) ==
    LET q == n \div d
        r == n % d
    IN  IF 2 * r > d \/ (2 * r = d /\ q % 2 = 1) THEN q + 1 ELSE q

\* n / d = (n' / d') * 2^e with 2^(Precision-1) <= n' / d' < 2^Precision
RECURSIVE Scale(_, _, _)
Scale(n, d, e) ==
    IF n >= d * Pow2(Precision) THEN Scale(n, 2 * d, e + 1)
    ELSE IF n < d * Pow2(Precision - 1) THEN Scale(2 * n, d, e - 1)
    ELSE [n |-> n, d |-> d, e |-> e]

\* the float m * 2^e
Pack(m, e) == IF e >= 0 THEN Num(m * Pow2(e), 1) ELSE Num(m, Pow2(-e))

\* the float with the sign and the rounded significand of a scaled number
Rounded(sign, sc) == Pack(sign * RoundHalfEven(sc.n, sc.d), sc.e)

\* the float nearest to n / d
Fl(n, d) ==
    IF n = 0 THEN Num(0, 1)
    ELSE Rounded(IF n < 0 THEN -1 ELSE 1,
                 Scale(Abs(n) \div GCD(Abs(n), d), d \div GCD(Abs(n), d), 0))

\* x < y
RLess(x, y) ==
    LET g == GCD(x.d, y.d) IN x.n * (y.d \div g) < y.n * (x.d \div g)

\* x == y of Python: numbers by value, anything else by type and content
PyEq(x, y) ==
    IF IsNumber(x) /\ IsNumber(y) THEN ~RLess(x, y) /\ ~RLess(y, x) ELSE x = y

\* max(a, b) and min(a, b) of Python: the first argument wins a tie
PyMax(a, b) == IF RLess(a, b) THEN b ELSE a

PyMin(a, b) == IF RLess(b, a) THEN b ELSE a

\* x * y, x + y and x / k in float arithmetic
FMul(x, y) ==
    LET g1 == GCD(Abs(x.n), y.d)
        g2 == GCD(Abs(y.n), x.d)
    IN  Fl((x.n \div g1) * (y.n \div g2), (x.d \div g2) * (y.d \div g1))

FAdd(x, y) ==
    LET g == GCD(x.d, y.d)
    IN  Fl(x.n * (y.d \div g) + y.n * (x.d \div g), (x.d \div g) * y.d)

FDiv(x, k) ==
    LET g == GCD(Abs(x.n), k) IN Fl(x.n \div g, x.d * (k \div g))

\* round(x, decimals): the nearest multiple of 10^-decimals, then the float
\* nearest to it
PyRound(x, decimals) ==
    LET sign == IF x.n < 0 THEN -1 ELSE 1
        q == RoundHalfEven(Abs(x.n) * Pow10(decimals), x.d)
    IN  Fl(sign * q, Pow10(decimals))

\* bool(v)
Truthy(v) ==
    CASE v.t = "none" -> FALSE
      [] v.t = "str" -> v.s # <<>>
      [] v.t = "repr" -> TRUE
      [] OTHER -> v.n # 0

\* an operation that raises (TypeError, ValueError) has this result
ErrV == [t |-> "error", n |-> 0, d |-> 1, s |-> <<>>]

\* str(v) of a value that is not a str: the text is kept as the value it
\* prints, since float(str(x)) == x for every float x
Repr(v) == [t |-> "repr", n |-> v.n, d |-> v.d, s |-> <<v.t>>]

\* str(v)
PyStr(v) == IF v.t \in {"str", "repr"} THEN v ELSE Repr(v)

Digits == <<"0", "1", "2", "3", "4", "5", "6", "7", "8", "9">>

IsDigit(c) == \E i \in 1 .. Len(Digits) : Digits[i] = c

DigitValue(c) == (CHOOSE i \in 1 .. Len(Digits) : Digits[i] = c) - 1

Signs == {"-", "+"}

\* value[1:] when value starts with a sign
StripSign(chars) ==
    IF chars # <<>> /\ Head(chars) \in Signs THEN Tail(chars) ELSE chars

\* value.replace(".", "")
DropDots(chars) == SelectSeq(chars, LAMBDA c : c # ".")

\* str.isnumeric
IsNumericText(chars) ==
    chars # <<>> /\ \A i \in 1 .. Len(chars) : IsDigit(chars[i])

\* the float repr of x has no exponent: x is 0 or at least 1e-4 in size
\* (the numbers here stay far below 1e16)
PlainRepr(v) == v.n = 0 \/ Abs(v.n) * 10000 >= v.d

\* NumericInput.is_numeric
IsNumeric(v) ==
    CASE v.t = "str" -> IsNumericText(DropDots(StripSign(v.s)))
      [] v.t = "num" -> PlainRepr(v)
      [] v.t = "repr" -> v.s = <<"num">> /\ PlainRepr(v)
      [] OTHER -> FALSE

RECURSIVE DigitsValue(_)
\* the integer written by a sequence of digits
DigitsValue(chars) ==
    IF chars = <<>> THEN 0
    ELSE 10 * DigitsValue(SubSeq(chars, 1, Len(chars) - 1))
         + DigitValue(chars[Len(chars)])

\* float(text): an optional sign, digits with at most one ".", and at least
\* one digit; anything else raises ValueError
ParseFloat(chars) ==
    LET body == StripSign(chars)
        sign == IF chars # <<>> /\ Head(chars) = "-" THEN -1 ELSE 1
        dots == {i \in 1 .. Len(body) : body[i] = "."}
        frac == IF dots = {} THEN 0
                ELSE Len(body) - (CHOOSE i \in dots : TRUE)
    IN  IF Cardinality(dots) <= 1 /\ IsNumericText(DropDots(body))
        THEN Fl(sign * DigitsValue(DropDots(body)), Pow10(frac))
        ELSE ErrV

\* float(v)
ToFloat(v) ==
    CASE v.t \in {"num", "bool"} -> Num(v.n, v.d)
      [] v.t = "str" -> ParseFloat(v.s)
      [] v.t = "repr" -> IF v.s = <<"num">> THEN Num(v.n, v.d) ELSE ErrV
      [] OTHER -> ErrV

(***************************************************************************)
(* Registers.  cells is the heap of Register objects in creation order, a  *)
(* Register is its index there, and registers is Gui._registers with 0     *)
(* for a name that is not a key.                                           *)
(***************************************************************************)
Names == {"r", "q"}

\* register(name=None)
NoName == "None"

MaxCells == 3

RegisterState == [registers |-> registers, cells |-> cells]

\* Gui.register: the registers after the call and the Register it returns
GuiRegisterCopy(rs, name, value) ==
    IF name = NoName \/ rs.registers[name] = 0
    THEN [registers |-> IF name = NoName THEN rs.registers
                        ELSE [rs.registers EXCEPT ![name] = Len(rs.cells) + 1],
          cells |-> Append(rs.cells, value),
          cell |-> Len(rs.cells) + 1]
    ELSE [registers |-> rs.registers,
          cells |-> Append(rs.cells, rs.cells[rs.registers[name]]),
          cell |-> Len(rs.cells) + 1]

GuiRegisterOverwrite(rs, name, value) ==
    IF name = NoName \/ rs.registers[name] = 0
    THEN [registers |-> IF name = NoName THEN rs.registers
                        ELSE [rs.registers EXCEPT ![name] = Len(rs.cells) + 1],
          cells |-> Append(rs.cells, value),
          cell |-> Len(rs.cells) + 1]
    ELSE [registers |-> rs.registers,
          cells |-> [rs.cells EXCEPT ![rs.registers[name]] = value],
          cell |-> rs.registers[name]]

GuiRegister(rs, name, value) ==
    IF name = NoName
    THEN [registers |-> rs.registers,
          cells |-> Append(rs.cells, value),
          cell |-> Len(rs.cells) + 1]
    ELSE IF rs.registers[name] = 0
    THEN [registers |-> [rs.registers EXCEPT ![name] = Len(rs.cells) + 1],
          cells |-> Append(rs.cells, value),
          cell |-> Len(rs.cells) + 1]
    ELSE IF rs.cells[rs.registers[name]].t = "none"
    THEN [registers |-> rs.registers,
          cells |-> [rs.cells EXCEPT ![rs.registers[name]] = value],
          cell |-> rs.registers[name]]
    ELSE [registers |-> rs.registers,
          cells |-> rs.cells,
          cell |-> rs.registers[name]]

\* Gui.register creates a Register: the name is None or not a key
Creates(rs, name) == name = NoName \/ rs.registers[name] = 0

RegisterInit ==
    /\ registers = [name \in Names |-> 0]
    /\ cells = <<>>

\* a slot whose widget has not been constructed
NoWidget ==
    [kind |-> "none", name |-> NoName, cell |-> 0, width |-> 0, height |-> 0,
     initial |-> NoneV, lo |-> NoneV, hi |-> NoneV, increment |-> 0,
     decimals |-> 0, hold |-> FALSE, active |-> FALSE, visible |-> NoneV]

\* no FloatingWindow's geometry is followed
NoFloating == [built |-> FALSE]

\* no StateMachine constructed yet
NoMachine == [built |-> FALSE]

\* no Clock constructed yet
NoTimer == [built |-> FALSE]

\* no Dropdown has been constructed
NoDropdown == [length |-> 0, hovered_index |-> 0]

NoCall == [op |-> "none"]

GuiInit ==
    /\ active_groups = {}
    /\ focused = {}
    /\ switch_value = [t \in TextInputs |-> FALSE]
    /\ last = NoCall
    /\ dispatched = <<>>
    /\ replays = 0
    /\ painted = <<>>

Init ==
    /\ GuiInit
    /\ mouse = MouseInitial
    /\ RegisterInit
    /\ widgets = [slot \in Slots |-> NoWidget]
    /\ dropdown = NoDropdown
    /\ floating = NoFloating
    /\ machine = NoMachine
    /\ timer = NoTimer

Settle(s, call) ==
    /\ active_groups' = s.active
    /\ focused' = s.focused
    /\ switch_value' = s.switch
    /\ dispatched' = s.log
    /\ replays' = s.replays
    /\ last' = call
    /\ painted' = <<>>

DoActivateGroup ==
    \E gs \in (SUBSET Groups) \ {{}} :
        /\ Settle(ActivateGroup(GuiState, gs),
                  [op |-> "activate", groups |-> gs])
        /\ UNCHANGED nonGuiVars

DoDeactivateGroup ==
    \E gs \in (SUBSET Groups) \ {{}} :
        /\ Settle(DeactivateGroup(GuiState, gs),
                  [op |-> "deactivate", groups |-> gs])
        /\ UNCHANGED nonGuiVars

DoFocusWidget ==
    \E item \in Items, overwrite \in BOOLEAN :
        /\ Settle(FocusWidget(GuiState, item, overwrite),
                  [op |-> "focus", item |-> item, overwrite |-> overwrite])
        /\ UNCHANGED nonGuiVars

DoReleaseWidget ==
    \E item \in Items :
        /\ Settle(ReleaseWidget(GuiState, item, FALSE, <<>>, <<>>, 0),
                  [op |-> "release", item |-> item])
        /\ UNCHANGED nonGuiVars

\* the snapshots a handler can be called with: button 0 just pressed or not,
\* the part of every window and the widgets under the pointer, the key typed
AllSnapshots ==
    [press : BOOLEAN, at : [Windows -> Regions], hov : [Widgets -> BOOLEAN],
     key : Keys]

\* without a press the handlers below read neither the regions nor the hover
\* flags, so one pointer position stands for all of them
Snapshots ==
    {snap \in AllSnapshots :
        ~snap.press => /\ \A w \in Windows : snap.at[w] = "out"
                       /\ \A w \in Widgets : ~snap.hov[w]}

\* the snapshots release_widget is called with: those of a frame without a
\* key
ReleaseSnapshots == {snap \in Snapshots : snap.key = ""}

\* Gui.release_widget(item, event_handler)
DoReleaseWidgetWith ==
    \E item \in Items, snap \in ReleaseSnapshots, tie \in TieOrders :
        \E s \in {ReleaseWidget(GuiState, item, TRUE, snap, tie, 0)} :
            /\ ~s.overflow
            /\ Settle(s, [op |-> "release_with", item |-> item,
                          press |-> snap.press, focused |-> focused,
                          active |-> active_groups])
            /\ UNCHANGED nonGuiVars

\* Gui.events(event_handler)
DoEvents ==
    \E snap \in Snapshots, tie \in TieOrders :
        \E s \in {GuiEvents(GuiState, snap, tie, 0)} :
            /\ ~s.overflow
            /\ Settle(s, [op |-> "events", snap |-> snap])
            /\ UNCHANGED nonGuiVars

\* Gui.render
DoRender ==
    \E tie \in TieOrders :
        /\ painted' = RenderOrder(GuiState, tie)
        /\ last' = [op |-> "render"]
        /\ dispatched' = <<>>
        /\ replays' = 0
        /\ UNCHANGED <<active_groups, focused, switch_value, nonGuiVars>>

Next ==
    \/ DoActivateGroup
    \/ DoDeactivateGroup
    \/ DoFocusWidget
    \/ DoReleaseWidget
    \/ DoEvents
    \/ DoRender

Spec == Init /\ [][Next]_vars

\* the registry under calls of release_widget that pass the event handler:
\* what Gui.events does to the registry is then done by the release itself
ReleaseNext ==
    \/ DoActivateGroup
    \/ DoDeactivateGroup
    \/ DoFocusWidget
    \/ DoReleaseWidgetWith

ReleaseSpec == Init /\ [][ReleaseNext]_vars

---------------------------------------------------------------------------
(* Claims about the registry, checked under Spec *)

\* the handlers the loop of the outermost Gui.events invoked, in order
TopLevel(log) == SelectSeq(log, LAMBDA e : e[1] = 0)

Range(q) == {q[i] : i \in 1 .. Len(q)}

\* C1: focus contention is a no-op. In every reachable state, a call
\* focus_widget(B) without overwrite changes nothing when the focus set is
\* not empty; and after focus_widget(A, overwrite=True) on an active item A,
\* a following focus_widget(B) without overwrite leaves the focus set {A}.
C1_FocusContentionIsNoOp ==
    /\ \A b \in Items :
          focused # {} => FocusWidget(GuiState, b, FALSE) = GuiState
    /\ \A a, b \in Items :
          (\/ a \in Groups /\ a \in active_groups
           \/ a \in Widgets /\ \E g \in active_groups : a \in WidgetsOf(g))
          => FocusWidget(FocusWidget(GuiState, a, TRUE), b, FALSE).focused = {a}

\* C1 happens: focus_widget(B) without overwrite was called on an active
\* item B while another item held the focus, which it still holds
C1_Witness ==
    /\ last.op = "focus" /\ ~last.overwrite
    /\ last.item = "winB" /\ "winB" \in active_groups
    /\ focused = {"winA"}

\* C2: the focus set holds at most one item in every reachable state
C2_AtMostOneFocused == Cardinality(focused) <= 1

\* C2 happens: a dispatch that re-entered Gui.events ends with one focus
\* holder, a window other than the one that released the focus
C2_Witness ==
    /\ last.op = "events" /\ replays = 1
    /\ Cardinality(focused) = 1

\* C3: in every reachable state, focus_widget(item, overwrite) changes
\* nothing, for either value of overwrite, when item is a group outside the
\* active set or a widget contained in no active group
C3_InactiveNotFocusable ==
    \A item \in Items, overwrite \in BOOLEAN :
        (\/ item \in Groups /\ item \notin active_groups
         \/ item \in Widgets /\ \A g \in active_groups : item \notin WidgetsOf(g))
        => FocusWidget(GuiState, item, overwrite) = GuiState

\* C3 happens: focus_widget with overwrite was called on a widget whose group
\* is not active, while an active group held the focus, which it still holds
C3_Witness ==
    /\ last.op = "focus" /\ last.overwrite /\ last.item = "text"
    /\ "winA" \notin active_groups
    /\ focused = {"main"} /\ "main" \in active_groups

\* C4: the loop of Gui.events invokes the handler of exactly the items that
\* are in the focus set when the call starts, if there are any, and of
\* exactly the groups in the active set otherwise, each once
C4_DispatchByFocus ==
    [][last'.op = "events" =>
         LET top == TopLevel(dispatched')
             want == IF focused # {} THEN focused ELSE active_groups
         IN  /\ {e[2] : e \in Range(top)} = want
             /\ Len(top) = Cardinality(want)]_vars

\* C4 happens: a dispatch invoked the handler of the focused window alone
\* although two more groups are active
C4_Witness ==
    /\ last.op = "events" /\ replays = 0
    /\ dispatched = << <<0, "winA">> >>
    /\ focused = {"winA"}
    /\ active_groups = Groups

\* C5: Gui.render paints every group of the active set exactly once and no
\* other group, whatever the focus set holds, and changes neither set
C5_RenderPaintsActive ==
    [][last'.op = "render" =>
         /\ Range(painted') = active_groups
         /\ Len(painted') = Cardinality(active_groups)
         /\ active_groups' = active_groups
         /\ focused' = focused]_vars

\* C5 happens: a render painted all three groups while one window held the
\* focus
C5_Witness ==
    /\ last.op = "render"
    /\ focused = {"winB"}
    /\ Range(painted) = Groups /\ Len(painted) = 3

\* the last Gui.events invoked the handler of item, at any depth
Handled(item) == \E i \in 1 .. Len(dispatched) : dispatched[i][2] = item

\* the handlers the re-run of Gui.events invoked
Replayed(log) == SelectSeq(log, LAMBDA e : e[1] = 1)

\* C15: after a Gui.events in which button 0 is just pressed on the close
\* control of a FloatingWindow whose handler runs, that window is neither in
\* the active set nor in the focus set.
C15_CloseDeactivatesAndReleases ==
    (last.op = "events" /\ last.snap.press) =>
        \A w \in Windows :
            (last.snap.at[w] = "close" /\ Handled(w))
            => w \notin active_groups /\ w \notin focused

\* C15 happens: the focused window was closed by a press on its close
\* control, and the focus set is empty
C15_Witness ==
    /\ last.op = "events" /\ last.snap.press
    /\ last.snap.at["winA"] = "close" /\ last.snap.at["winB"] = "out"
    /\ dispatched = << <<0, "winA">> >>
    /\ "winA" \notin active_groups
    /\ focused = {}

\* C16: after a Gui.events in which button 0 is just pressed inside the body
\* or the header (not the close control) of an active FloatingWindow whose
\* handler runs, the focus set is exactly that window, whatever other
\* windows lie under the pointer.
C16_PressFocuses ==
    (last.op = "events" /\ last.snap.press) =>
        \A w \in Windows :
            (/\ last.snap.at[w] \in {"body", "header"}
             /\ Handled(w)
             /\ w \in active_groups)
            => focused = {w}

\* the positions in the log of the handlers of active windows that saw the
\* press inside their body or header
PressedAt ==
    {i \in 1 .. Len(dispatched) :
        /\ dispatched[i][2] \in Windows
        /\ dispatched[i][2] \in active_groups
        /\ last.snap.at[dispatched[i][2]] \in {"body", "header"}}

\* C16 amended: after such a Gui.events the focus set is exactly the window
\* whose handler ran last among the active windows pressed inside their body
\* or header; it is the pressed window itself when no other window under
\* the pointer is handled after it.
C16_LastPressedWindowFocused ==
    (last.op = "events" /\ last.snap.press /\ PressedAt # {}) =>
        \E i \in PressedAt :
            /\ \A j \in PressedAt : j <= i
            /\ focused = {dispatched[i][2]}

\* C16 happens: two windows lie under the pointer, both handlers ran, and
\* the one handled last holds the focus
C16_Witness ==
    /\ last.op = "events" /\ last.snap.press
    /\ last.snap.at["winA"] = "body" /\ last.snap.at["winB"] = "header"
    /\ dispatched = << <<0, "winA">>, <<0, "winB">> >>
    /\ focused = {"winB"}

\* C17: when button 0 is just pressed outside the body and the header of a
\* FloatingWindow that holds the focus, the window leaves the focus set and
\* Gui.events is re-run once within the same call, invoking the handler of
\* every active group once.
C17_ClickFallsThrough ==
    [][\A w \in Windows :
        (/\ last'.op = "events"
         /\ last'.snap.press
         /\ last'.snap.at[w] = "out"
         /\ w \in focused)
        => /\ w \notin focused'
           /\ replays' = 1
           /\ {e[2] : e \in Range(Replayed(dispatched'))} = active_groups
           /\ Len(Replayed(dispatched')) = Cardinality(active_groups)]_vars

\* C17 happens: a press outside the focused window winA was passed on to the
\* three active groups, and winB, under the pointer, took the focus
C17_Witness ==
    /\ last.op = "events" /\ last.snap.press
    /\ last.snap.at["winA"] = "out" /\ last.snap.at["winB"] = "body"
    /\ replays = 1
    /\ dispatched[1] = <<0, "winA">>
    /\ Len(dispatched) = 4
    /\ focused = {"winB"}

\* C18: one Gui.events call re-enters Gui.events at most once, for every
\* reachable registry state, every snapshot and every iteration order.
C18_AtMostOneReplay ==
    /\ replays <= 1
    /\ \A snap \in Snapshots, tie \in TieOrders :
            \A s \in {GuiEvents(GuiState, snap, tie, 0)} :
                ~s.overflow /\ s.replays <= 1

\* C18 happens: a call re-entered Gui.events once and left the focus empty
C18_Witness ==
    /\ last.op = "events" /\ replays = 1
    /\ focused = {}
    /\ Len(dispatched) >= 3

\* C19: deactivate_group removes its groups from the active set and leaves
\* the focus set as it is, also when one of the groups is in the focus set;
\* activate_group adds its groups and leaves the focus set as it is.
C19_DeactivationKeepsFocus ==
    [][/\ last'.op = "deactivate" =>
            /\ active_groups' = active_groups \ last'.groups
            /\ focused' = focused
       /\ last'.op = "activate" =>
            /\ active_groups' = active_groups \cup last'.groups
            /\ focused' = focused]_vars

\* C19 happens: winA was deactivated and is still in the focus set
C19_Witness ==
    /\ last.op = "deactivate" /\ "winA" \in last.groups
    /\ "winA" \notin active_groups
    /\ focused = {"winA"}

C21_FocusedWindowInFront ==
    \A w \in Windows :
        IsFocused(GuiState, w) =>
            /\ Layer(GuiState, w) = FloatLayer
            /\ (last.op = "render" /\ w \in active_groups) =>
                   /\ w \in Range(painted)
                   /\ \A i, j \in 1 .. Len(painted) :
                          (painted[i] = w /\ painted[j] # w
                           /\ Layer(GuiState, painted[j]) > FloatLayer)
                          => j < i

\* C21 happens: the child of winA holds the focus and a render painted winA
\* after the main group and the other window
C21_Witness ==
    /\ last.op = "render"
    /\ focused = {"text"}
    /\ painted = <<"main", "winB", "winA">>

\* C30: an inactive group never receives input. In every reachable state of
\* the registry, Gui.events invokes the event handler only of groups in the
\* active set and of widgets contained in an active group (the active set
\* taken when Gui.events is called, or as the handlers of the call left it).
C30_InactiveNeverReceives ==
    [][last'.op = "events" =>
          \A i \in 1 .. Len(dispatched') :
              LET item == dispatched'[i][2]
              IN  \/ item \in active_groups \cup active_groups'
                  \/ \E g \in active_groups \cup active_groups' :
                         item \in WidgetsOf(g)]_vars

\* C31: release_widget(item, snapshot) for an item that is not in the focus
\* set leaves the focus set and the active set unchanged and dispatches no
\* input again, although a snapshot is supplied.
C31_ReleaseOfUnfocusedIsNoOp ==
    (last.op = "release_with" /\ last.item \notin last.focused) =>
        /\ focused = last.focused
        /\ active_groups = last.active
        /\ dispatched = <<>>
        /\ replays = 0

\* C31 happens: release_widget was called with the snapshot of a press for a
\* window that did not hold the focus, which another window held
C31_Witness ==
    /\ last.op = "release_with" /\ last.item = "winB" /\ last.press
    /\ last.focused = {"winA"} /\ focused = {"winA"}
    /\ "winB" \in active_groups

---------------------------------------------------------------------------
(* MouseSpec: Mouse.update over every sequence of raw hold states *)

\* what pygame.mouse.get_pressed(num_buttons=5) can return
RawHolds == [Buttons -> BOOLEAN]

\* EventHandler.update: self.mouse.update(self.events)
DoMouseUpdate ==
    \E raw \in RawHolds :
        /\ mouse' = MouseUpdate(mouse, raw)
        /\ UNCHANGED <<guiVars, last, regVars, dropdown, floating, loopVars>>

MouseNext == DoMouseUpdate

MouseSpec == Init /\ [][MouseNext]_vars

\* C6: on every Mouse.update and for every button, 'press' is true exactly
\* when the hold state went from 0 at the previous sample to 1 at this one,
\* 'release' exactly when it went from 1 to 0, and never both
C6_PressReleaseEdges ==
    [][\A b \in Buttons :
          /\ MouseGet(mouse', b, "press")
                <=> (MouseGet(mouse', b, "hold") /\ ~MouseGet(mouse, b, "hold"))
          /\ MouseGet(mouse', b, "release")
                <=> (~MouseGet(mouse', b, "hold") /\ MouseGet(mouse, b, "hold"))
          /\ ~(MouseGet(mouse', b, "press") /\ MouseGet(mouse', b, "release"))]_vars

\* C6 happens: in one tick button 0 is just pressed, button 1 just released,
\* button 2 still held without a new press and button 3 still up
C6_Witness ==
    /\ MouseGet(mouse, 0, "press") /\ MouseGet(mouse, 0, "hold")
    /\ MouseGet(mouse, 1, "release") /\ ~MouseGet(mouse, 1, "hold")
    /\ MouseGet(mouse, 2, "hold") /\ ~MouseGet(mouse, 2, "press")
    /\ ~MouseGet(mouse, 3, "hold") /\ ~MouseGet(mouse, 3, "release")

(***************************************************************************)
(* The widgets bound to registers.  They are the children of one           *)
(* WidgetGroup, Panel, constructed active.  ws is the state a widget       *)
(* method works on: the registry of groups and focus, the registers and    *)
(* the widgets; error is set when the method raises.  A method is a chain  *)
(* of steps, each working on the state its predecessor left.               *)
(***************************************************************************)
WidgetState ==
    [active |-> active_groups, focused |-> focused, registers |-> registers,
     cells |-> cells, widgets |-> widgets, error |-> FALSE]

\* self._value_register.value (Switch: self._switch_register.value)
Reg(ws, slot) == ws.cells[ws.widgets[slot].cell]

\* the method raises
Raise(ws) == [ws EXCEPT !.error = TRUE]

\* self._value_register.value = v, or the exception that computing v raised
SetReg(ws, slot, v) ==
    IF v = ErrV THEN Raise(ws)
    ELSE [ws EXCEPT !.cells[ws.widgets[slot].cell] = v]

\* the fields a constructor sets once Gui.register has returned r
Bound(ws, slot, name, w, r) ==
    [ws EXCEPT !.registers = r.registers,
               !.cells = r.cells,
               !.widgets[slot] = [w EXCEPT !.name = name, !.cell = r.cell]]

\* the constructor's call of Gui.register and the fields it sets
Bind(ws, slot, name, value, w) ==
    Bound(ws, slot, name, w, GuiRegister(ws, name, value))

Zero == Num(0, 1)

\* Slider.SIZE
SliderSize == 20

\* the literal 0.005
ScrollStep == Fl(5, 1000)

\* x * k, x + y and x / k on register content: TypeError unless numbers
Times(x, k) == IF IsNumber(x) THEN FMul(x, Num(k, 1)) ELSE ErrV

Plus(x, y) == IF IsNumber(x) /\ IsNumber(y) THEN FAdd(x, y) ELSE ErrV

Over(x, k) == IF IsNumber(x) THEN FDiv(x, k) ELSE ErrV

\* min(max(x, 0), k)
Clamp(x, k) == IF x = ErrV THEN ErrV ELSE PyMin(PyMax(x, Zero), Num(k, 1))

\* HorizontalSlider.value
HorizontalSliderValue(ws, slot) == Over(Reg(ws, slot), ws.widgets[slot].width)

\* VerticalSlider.value
VerticalSliderValue(ws, slot) == Over(Reg(ws, slot), ws.widgets[slot].height)

\* HorizontalSlider.value setter
HorizontalSliderSet(ws, slot, val) ==
    SetReg(ws, slot,
           Clamp(Times(val, ws.widgets[slot].width), ws.widgets[slot].width))

\* VerticalSlider.value setter
VerticalSliderSetWidth(ws, slot, val) ==
    SetReg(ws, slot,
           Clamp(Times(val, ws.widgets[slot].width), ws.widgets[slot].height))

VerticalSliderSet(ws, slot, val) ==
    SetReg(ws, slot,
           Clamp(Times(val, ws.widgets[slot].height), ws.widgets[slot].height))

IsSlider(w) == w.kind \in {"hslider", "vslider"}

\* the length of the track: the side of the rectangle along the axis
Track(w) == IF w.kind = "hslider" THEN w.width ELSE w.height

SliderValue(ws, slot) ==
    IF ws.widgets[slot].kind = "hslider" THEN HorizontalSliderValue(ws, slot)
    ELSE VerticalSliderValue(ws, slot)

SliderSet(ws, slot, val) ==
    IF ws.widgets[slot].kind = "hslider" THEN HorizontalSliderSet(ws, slot, val)
    ELSE VerticalSliderSet(ws, slot, val)

\* Slider.dim: the rectangle of a slider with a track of length
SliderFields(kind, length, initial) ==
    [NoWidget EXCEPT !.kind = kind,
                     !.width = IF kind = "hslider" THEN length ELSE SliderSize,
                     !.height = IF kind = "hslider" THEN SliderSize ELSE length,
                     !.initial = initial]

\* HorizontalSlider.__init__, VerticalSlider.__init__: Slider.__init__, then
\* self.value = self._initial_value
SliderConstruct(ws, slot, kind, name, length, initial) ==
    SliderSet(Bind(ws, slot, name, initial, SliderFields(kind, length, initial)),
              slot, initial)

\* Slider.events, the branches on hovered
SliderHover(ws, slot, snap) ==
    IF snap.over # slot THEN ws
    ELSE IF snap.press0 THEN [ws EXCEPT !.widgets[slot].hold = TRUE]
    ELSE IF snap.press2 THEN SliderSet(ws, slot, ws.widgets[slot].initial)
    ELSE IF snap.scroll # 0
    THEN SliderSet(ws, slot,
                   Plus(SliderValue(ws, slot),
                        FMul(Num(snap.scroll, 1), ScrollStep)))
    ELSE ws

\* Slider.events, the end: hold is dropped when button 0 is up
SliderRelease(ws, slot, snap) ==
    IF ws.error \/ snap.hold0 THEN ws
    ELSE [ws EXCEPT !.widgets[slot].hold = FALSE]

\* the register follows the pointer while hold is set
SlideTo(ws, slot, slide) ==
    IF ~PyEq(slide, Reg(ws, slot)) /\ ws.widgets[slot].hold
    THEN SetReg(ws, slot, slide)
    ELSE ws

\* the position of the knob: min(max(register, 0), length) raises TypeError
\* unless the register holds a number
KnobPosition(ws, slot) ==
    IF IsNumber(Reg(ws, slot)) THEN ws ELSE Raise(ws)

\* HorizontalSlider.events and VerticalSlider.events after Slider.events;
\* snap.rel is the pointer's offset from the start of the track
SliderFollow(ws, slot, snap) ==
    IF ws.error THEN ws
    ELSE KnobPosition(SlideTo(ws, slot,
                              Clamp(Num(snap.rel, 1), Track(ws.widgets[slot]))),
                      slot)

\* HorizontalSlider.events, VerticalSlider.events
SliderEvents(ws, slot, snap) ==
    SliderFollow(SliderRelease(SliderHover(ws, slot, snap), slot, snap),
                 slot, snap)

\* TextInput.value
TextInputValue(ws, slot) ==
    IF ws.widgets[slot].active THEN ws.widgets[slot].visible ELSE Reg(ws, slot)

\* NumericInput.value: float(self._value_register)
NumericInputValue(ws, slot) == ToFloat(Reg(ws, slot))

\* self._visible_value = self._value_register.value
ShowRegister(ws, slot) ==
    IF ws.error THEN ws
    ELSE [ws EXCEPT !.widgets[slot].visible = Reg(ws, slot)]

\* TextInput.value setter
TextInputSet(ws, slot, new) ==
    ShowRegister(SetReg(ws, slot, PyStr(new)), slot)

\* max(lo, x), min(hi, x) and round(x, decimals) of a float(...) that may
\* have raised
MaxWith(lo, x) == IF x = ErrV THEN ErrV ELSE PyMax(lo, x)

MinWith(hi, x) == IF x = ErrV THEN ErrV ELSE PyMin(hi, x)

RoundTo(x, decimals) == IF x = ErrV THEN ErrV ELSE PyRound(x, decimals)

\* NumericInput.format, the lower limit
FormatLow(w, value) ==
    IF w.lo # NoneV THEN MaxWith(w.lo, ToFloat(value)) ELSE value

\* NumericInput.format, the upper limit
FormatHigh(w, value) ==
    IF w.hi # NoneV /\ value # ErrV THEN MinWith(w.hi, ToFloat(value))
    ELSE value

\* NumericInput.format, the rounding
FormatRound(w, value) ==
    IF value = ErrV THEN ErrV ELSE RoundTo(ToFloat(value), w.decimals)

\* NumericInput.format
Format(w, value) == FormatRound(w, FormatHigh(w, FormatLow(w, value)))

\* NumericInput.value setter: an empty text stores 0.0
EmptyToZero(ws, slot, new) ==
    IF new = Str(<<>>) THEN SetReg(ws, slot, Fl(0, 1)) ELSE ws

\* NumericInput.value setter: a numeric value is formatted and stored
StoreNumeric(ws, slot, new) ==
    IF IsNumeric(new) THEN SetReg(ws, slot, Format(ws.widgets[slot], new))
    ELSE ws

\* NumericInput.value setter
NumericInputSet(ws, slot, new) ==
    ShowRegister(StoreNumeric(EmptyToZero(ws, slot, new), slot, new), slot)

\* self.value = new_value on a TextInput or a NumericInput
InputSet(ws, slot, new) ==
    IF ws.widgets[slot].kind = "numeric" THEN NumericInputSet(ws, slot, new)
    ELSE TextInputSet(ws, slot, new)

\* TextInput.__init__
TextInputConstruct(ws, slot, name, value) ==
    ShowRegister(Bind(ws, slot, name, value, [NoWidget EXCEPT !.kind = "text"]),
                 slot)

NumericFields(limits, increment, decimals) ==
    [NoWidget EXCEPT !.kind = "numeric", !.lo = limits[1], !.hi = limits[2],
                     !.increment = increment, !.decimals = decimals]

\* NumericInput.__init__: TextInput.__init__ is not given the value
NumericInputConstruct(ws, slot, name, value, limits, increment, decimals) ==
    NumericInputSet(
        ShowRegister(Bind(ws, slot, name, NoneV,
                          NumericFields(limits, increment, decimals)),
                     slot),
        slot, value)

\* TextInput.activate
Activate(ws, slot) ==
    FocusWidget([ws EXCEPT !.widgets[slot].visible = Str(<<>>),
                           !.widgets[slot].active = TRUE],
                slot, FALSE)

\* TextInput.deactivate: a text that is not empty is assigned to the value
Commit(ws, slot) ==
    IF Truthy(ws.widgets[slot].visible)
    THEN InputSet(ws, slot, ws.widgets[slot].visible)
    ELSE ws

\* TextInput.deactivate: the switch goes off and the focus is released
SwitchOff(ws, slot) ==
    IF ws.error THEN ws
    ELSE Unfocus([ws EXCEPT !.widgets[slot].active = FALSE], slot)

\* TextInput.deactivate
Deactivate(ws, slot) == SwitchOff(Commit(ws, slot), slot)

\* self._visible_value + char: TypeError unless the text is a str (an
\* active input never shows a printed value: activate empties the text and
\* the setter is given text)
Concat(v, char) ==
    IF v.t # "str" THEN ErrV
    ELSE IF char = "" THEN v ELSE Str(Append(v.s, char))

\* a mutant of Type: the typed text is stored through the value setter
TypeIntoRegister(ws, slot, char) ==
    IF ws.widgets[slot].kind = "numeric"
       /\ ~(IsDigit(char) \/ char \in {".", "-", "+"})
    THEN ws
    ELSE IF ws.widgets[slot].visible.t # "str" THEN Raise(ws)
    ELSE TextInputSet(ws, slot, Concat(ws.widgets[slot].visible, char))

\* TextInput.type, NumericInput.type
Type(ws, slot, char) ==
    IF ws.widgets[slot].kind = "numeric"
       /\ ~(IsDigit(char) \/ char \in {".", "-", "+"})
    THEN ws
    ELSE IF ws.widgets[slot].visible.t # "str" THEN Raise(ws)
    ELSE [ws EXCEPT !.widgets[slot].visible = Concat(@, char)]

\* self._visible_value[:-1]
Backspace(ws, slot) ==
    IF ws.widgets[slot].visible.t # "str" THEN Raise(ws)
    ELSE IF ws.widgets[slot].visible.s = <<>> THEN ws
    ELSE [ws EXCEPT !.widgets[slot].visible =
                        Str(SubSeq(@.s, 1, Len(@.s) - 1))]

\* TextInput.events, the press of button 0
InputPress(ws, slot, snap) ==
    IF ~snap.press0 THEN ws
    ELSE IF snap.over = slot /\ ~ws.widgets[slot].active
    THEN Activate(ws, slot)
    ELSE Deactivate(ws, slot)

\* TextInput.events, the key, with ESCAPE handled as RETURN
InputKeyEscapeCommits(ws, slot, snap) ==
    IF ws.error THEN ws
    ELSE IF ~ws.widgets[slot].active THEN ShowRegister(ws, slot)
    ELSE IF snap.key = "BACKSPACE" THEN Backspace(ws, slot)
    ELSE IF snap.key \in {"RETURN", "ESCAPE"} THEN Deactivate(ws, slot)
    ELSE Type(ws, slot, snap.key)

\* TextInput.events, the key
InputKey(ws, slot, snap) ==
    IF ws.error THEN ws
    ELSE IF ~ws.widgets[slot].active THEN ShowRegister(ws, slot)
    ELSE IF snap.key = "BACKSPACE" THEN Backspace(ws, slot)
    ELSE IF snap.key \in {"RETURN", "ESCAPE"}
    THEN Deactivate(IF snap.key = "ESCAPE" THEN ShowRegister(ws, slot) ELSE ws,
                    slot)
    ELSE Type(ws, slot, snap.key)

\* TextInput.events
TextInputWidgetEvents(ws, slot, snap) ==
    InputKey(InputPress(ws, slot, snap), slot, snap)

\* self.value = self.value + scroll * self._increment
Increment(ws, slot, value, step) ==
    IF value = ErrV THEN Raise(ws)
    ELSE NumericInputSet(ws, slot, FAdd(value, Num(step, 1)))

\* NumericInput.events after TextInput.events
NumericHover(ws, slot, snap) ==
    IF ws.error \/ ws.widgets[slot].kind # "numeric"
       \/ ws.widgets[slot].active \/ snap.over # slot
    THEN ws
    ELSE Increment(ws, slot, NumericInputValue(ws, slot),
                   snap.scroll * ws.widgets[slot].increment)

\* TextInput.events, and NumericInput.events, which extends it
InputEvents(ws, slot, snap) ==
    NumericHover(TextInputWidgetEvents(ws, slot, snap), slot, snap)

\* DataLabel.__init__
DataLabelConstruct(ws, slot, name, value, decimals) ==
    Bind(ws, slot, name, value,
         [NoWidget EXCEPT !.kind = "datalabel", !.decimals = decimals])

\* DataLabel.value
DataLabelValue(ws, slot) == Reg(ws, slot)

\* DataLabel.value setter
DataLabelSet(ws, slot, new) ==
    SetReg(ws, slot, RoundTo(ToFloat(new), ws.widgets[slot].decimals))

\* Switch.__init__ of a FlipSwitch
SwitchConstruct(ws, slot, name, active) ==
    Bind(ws, slot, name, BoolV(active), [NoWidget EXCEPT !.kind = "switch"])

\* Switch.active
SwitchActive(ws, slot) == Reg(ws, slot)

\* Switch.relay; NoneV is relay() without an argument
Relay(ws, slot, arg) ==
    SetReg(ws, slot, IF arg = NoneV THEN BoolV(~Truthy(Reg(ws, slot))) ELSE arg)

\* FlipSwitch.events
FlipSwitchEvents(ws, slot, snap) ==
    IF snap.over = slot /\ snap.press0 THEN Relay(ws, slot, NoneV) ELSE ws

\* the value property of the widget in a slot
WidgetValue(ws, slot) ==
    CASE IsSlider(ws.widgets[slot]) -> SliderValue(ws, slot)
      [] ws.widgets[slot].kind = "numeric" -> NumericInputValue(ws, slot)
      [] ws.widgets[slot].kind = "text" -> TextInputValue(ws, slot)
      [] ws.widgets[slot].kind = "datalabel" -> DataLabelValue(ws, slot)
      [] OTHER -> SwitchActive(ws, slot)

\* the value setter of the widget in a slot (a Switch has relay)
WidgetSet(ws, slot, new) ==
    CASE IsSlider(ws.widgets[slot]) -> SliderSet(ws, slot, new)
      [] ws.widgets[slot].kind \in {"numeric", "text"} -> InputSet(ws, slot, new)
      [] ws.widgets[slot].kind = "datalabel" -> DataLabelSet(ws, slot, new)
      [] OTHER -> Relay(ws, slot, new)

\* widget.events
WidgetEvents(ws, slot, snap) ==
    CASE IsSlider(ws.widgets[slot]) -> SliderEvents(ws, slot, snap)
      [] ws.widgets[slot].kind \in {"numeric", "text"} -> InputEvents(ws, slot, snap)
      [] ws.widgets[slot].kind = "datalabel" -> ws
      [] OTHER -> FlipSwitchEvents(ws, slot, snap)

RECURSIVE EventsOver(_, _, _)
\* the loop over the widgets in q; an exception ends it
EventsOver(ws, q, snap) ==
    IF q = <<>> \/ ws.error THEN ws
    ELSE EventsOver(WidgetEvents(ws, Head(q), snap), Tail(q), snap)

Constructed(ws) == {slot \in Slots : ws.widgets[slot].kind # "none"}

\* Gui.events where Panel is the only group: the focused widget if there is
\* one, else the widgets of Panel when it is active; order is the iteration
\* order of the set of widgets, which all have the default layer
PanelEvents(ws, snap, order) ==
    EventsOver(ws,
               SelectSeq(order,
                         LAMBDA slot :
                            IF ws.focused # {} THEN slot \in ws.focused
                            ELSE Panel \in ws.active /\ slot \in Constructed(ws)),
               snap)

\* the constructor of a widget with arguments a
Construct(ws, slot, name, a) ==
    CASE a.kind \in {"hslider", "vslider"} ->
            SliderConstruct(ws, slot, a.kind, name, a.length, a.value)
      [] a.kind = "numeric" ->
            NumericInputConstruct(ws, slot, name, a.value, a.limits, 1, 2)
      [] a.kind = "text" -> TextInputConstruct(ws, slot, name, a.value)
      [] a.kind = "datalabel" -> DataLabelConstruct(ws, slot, name, a.value, 2)
      [] OTHER -> SwitchConstruct(ws, slot, name, a.value.n = 1)

(***************************************************************************)
(* The register table on its own: calls of Gui.register and assignments    *)
(* to the value of a Register that a caller holds.                         *)
(***************************************************************************)
RegValues == {NoneV, Num(1, 1), Num(2, 1)}

DoRegister ==
    \E name \in Names \cup {NoName}, value \in RegValues :
        \E r \in {GuiRegister(RegisterState, name, value)} :
            /\ Creates(RegisterState, name) => Len(cells) < MaxCells
            /\ registers' = r.registers
            /\ cells' = r.cells
            /\ last' = [op |-> "register", name |-> name, value |-> value,
                        cell |-> r.cell]
            /\ UNCHANGED <<guiVars, mouse, widgets, dropdown, floating, loopVars>>

\* register.value = value, by a holder of the Register
DoAssign ==
    \E cell \in 1 .. Len(cells), value \in RegValues :
        /\ cells' = [cells EXCEPT ![cell] = value]
        /\ last' = [op |-> "assign", cell |-> cell, value |-> value]
        /\ UNCHANGED <<guiVars, mouse, registers, widgets, dropdown, floating, loopVars>>

RegisterNext == DoRegister \/ DoAssign

RegisterSpec == Init /\ [][RegisterNext]_vars

\* C7: Gui.register(name, default) with a name that is not None creates a
\* Register holding default when the name is not a key, sets the value of
\* the Register under the name to default when that value is None, and
\* otherwise leaves the value alone; it returns the Register stored under
\* the name, no other Register changes, and a name never moves to another
\* Register, so every call with the name returns the same Register.
C7_RegisterGetOrCreate ==
    [][/\ \A name \in Names :
            registers[name] # 0 => registers'[name] = registers[name]
       /\ (last'.op = "register" /\ last'.name # NoName) =>
            LET name == last'.name
                old == registers[name]
                new == registers'[name]
            IN  /\ last'.cell = new
                /\ new # 0
                /\ \A other \in Names \ {name} :
                        registers'[other] = registers[other]
                /\ \A cell \in 1 .. Len(cells) :
                        cell # old => cells'[cell] = cells[cell]
                /\ IF old = 0
                   THEN /\ new = Len(cells) + 1
                        /\ Len(cells') = Len(cells) + 1
                        /\ cells'[new] = last'.value
                   ELSE /\ Len(cells') = Len(cells)
                        /\ cells'[new] = IF cells[old] = NoneV
                                         THEN last'.value
                                         ELSE cells[old]]_vars

\* a second call with a name whose Register holds a value other than None,
\* with another default
C7_Witness ==
    /\ last.op = "register"
    /\ last.name = "r"
    /\ last.cell = registers["r"]
    /\ last.cell < Len(cells)
    /\ last.value = Num(2, 1)
    /\ cells[last.cell] = Num(1, 1)
    /\ registers["q"] # 0

(***************************************************************************)
(* The widgets and their registers: constructions, assignments to value    *)
(* and frames of input.                                                    *)
(***************************************************************************)
MaxText == 1

MaxValue == 4

\* a turn of the wheel reported as one event (event.y): 100 notches of 0.005
\* move a slider by half its track
BigScroll == 100

\* the track lengths: a horizontal slider of 4 and a vertical slider of 2
TrackOf(kind) == IF kind = "hslider" THEN 4 ELSE 2

NoLimits == <<NoneV, NoneV>>

Args(kind, length, value, limits) ==
    [kind |-> kind, length |-> length, value |-> value, limits |-> limits]

ConstructArgs ==
    {Args("hslider", TrackOf("hslider"), value, NoLimits) :
        value \in {Zero, Fl(1, 2)}}
    \cup {Args("vslider", TrackOf("vslider"), Fl(1, 2), NoLimits),
          Args("numeric", 0, Fl(0, 1), NoLimits),
          Args("numeric", 0, Fl(3, 1), <<Num(0, 1), Num(2, 1)>>),
          Args("text", 0, NoneV, NoLimits),
          Args("text", 0, Str(<<"a">>), NoLimits),
          Args("datalabel", 0, Fl(1, 1), NoLimits),
          Args("switch", 0, BoolV(TRUE), NoLimits)}

\* every widget is given the same register name
WidgetNames == {"r"}

\* the values given to the setters
SetInputs(w) ==
    CASE IsSlider(w) -> {Fl(-1, 5), Fl(1, 2)}
      [] w.kind = "numeric" -> {Fl(3, 1), Str(<<>>)}
      [] w.kind = "text" -> {Str(<<"b">>)}
      [] w.kind = "datalabel" -> {Fl(5, 2)}
      [] OTHER -> {NoneV, BoolV(FALSE), BoolV(TRUE)}

WidgetKeys == {"BACKSPACE", "RETURN", "ESCAPE", "1", "a"}

\* pointer offsets along the track: before it, inside it, past its end
Offsets == {-1, 1, 5}

Pointers == Slots \cup {"none"}

Snap(press0, hold0, press2, scroll, key, over, rel) ==
    [press0 |-> press0, hold0 |-> hold0, press2 |-> press2, scroll |-> scroll,
     key |-> key, over |-> over, rel |-> rel]

\* the frames of input, one event per frame: a key, a pointer at rest, a
\* press of button 0, a drag with button 0 held, a press of button 2, a
\* turn of the wheel
WidgetSnapshots ==
    {Snap(FALSE, FALSE, FALSE, 0, key, "none", 1) : key \in WidgetKeys}
    \cup {Snap(FALSE, FALSE, FALSE, 0, "", over, 1) : over \in Pointers}
    \cup {Snap(TRUE, TRUE, FALSE, 0, "", over, 1) : over \in Pointers}
    \cup {Snap(FALSE, TRUE, FALSE, 0, "", "none", rel) : rel \in Offsets}
    \cup {Snap(FALSE, FALSE, TRUE, 0, "", over, 1) : over \in Slots}
    \cup {Snap(FALSE, FALSE, FALSE, scroll, "", over, 1) :
            scroll \in {-BigScroll, -1, 1, BigScroll}, over \in Slots}

\* the pointer is over a constructed widget, inside the track of a slider;
\* the wheel turns by BigScroll over a slider and by one notch elsewhere
SnapshotFits(snap) ==
    /\ snap.over \in Slots => widgets[snap.over].kind # "none"
    /\ (snap.over \in Slots /\ IsSlider(widgets[snap.over])) =>
            /\ snap.rel >= 0
            /\ snap.rel < Track(widgets[snap.over])
            /\ snap.scroll \in {-BigScroll, 0, BigScroll}
    /\ ~(snap.over \in Slots /\ IsSlider(widgets[snap.over])) =>
            snap.scroll \in {-1, 0, 1}

SlotOrders == {<<"w1", "w2">>, <<"w2", "w1">>}

\* the bounds on the content of registers and on the text being typed
InBounds(ws) ==
    /\ \A cell \in 1 .. Len(ws.cells) :
            /\ IsNumber(ws.cells[cell]) =>
                    Abs(ws.cells[cell].n) <= MaxValue * ws.cells[cell].d
            /\ Len(ws.cells[cell].s) <= MaxText
    /\ \A slot \in Slots : Len(ws.widgets[slot].visible.s) <= MaxText

WidgetInit ==
    /\ active_groups = {Panel}
    /\ focused = {}
    /\ switch_value = [t \in TextInputs |-> FALSE]
    /\ last = NoCall
    /\ dispatched = <<>>
    /\ replays = 0
    /\ painted = <<>>
    /\ mouse = MouseInitial
    /\ RegisterInit
    /\ widgets = [slot \in Slots |-> NoWidget]
    /\ dropdown = NoDropdown
    /\ floating = NoFloating
    /\ machine = NoMachine
    /\ timer = NoTimer

\* the widgets whose register holds another content in ws than it holds now
WrittenIn(ws) ==
    {slot \in Slots :
        /\ widgets[slot].kind # "none"
        /\ ws.cells[widgets[slot].cell] # cells[widgets[slot].cell]}

\* the state after a call: an exception ends the program
Land(ws, op) ==
    IF ws.error
    THEN /\ last' = [op |-> "error"]
         /\ UNCHANGED <<focused, registers, cells, widgets>>
    ELSE /\ InBounds(ws)
         /\ focused' = ws.focused
         /\ registers' = ws.registers
         /\ cells' = ws.cells
         /\ widgets' = ws.widgets
         /\ last' = [op |-> op, written |-> WrittenIn(ws)]

Running == last.op # "error"

DoConstruct ==
    \E slot \in Slots, name \in WidgetNames, a \in ConstructArgs :
        /\ Running
        /\ widgets[slot].kind = "none"
        /\ slot = "w2" => widgets["w1"].kind # "none"
        /\ Creates(WidgetState, name) => Len(cells) < MaxCells
        /\ \E ws \in {Construct(WidgetState, slot, name, a)} :
                Land(ws, "construct")
        /\ UNCHANGED <<active_groups, switch_value, dispatched, replays,
                       painted, mouse, dropdown, floating, loopVars>>

DoSetValue ==
    \E slot \in Slots :
        /\ Running
        /\ widgets[slot].kind # "none"
        /\ \E new \in SetInputs(widgets[slot]) :
            \E ws \in {WidgetSet(WidgetState, slot, new)} :
                Land(ws, "set")
        /\ UNCHANGED <<active_groups, switch_value, dispatched, replays,
                       painted, mouse, dropdown, floating, loopVars>>

DoWidgetEvents ==
    \E snap \in WidgetSnapshots, order \in SlotOrders :
        /\ Running
        /\ SnapshotFits(snap)
        /\ \E ws \in {PanelEvents(WidgetState, snap, order)} :
                Land(ws, "events")
        /\ UNCHANGED <<active_groups, switch_value, dispatched, replays,
                       painted, mouse, dropdown, floating, loopVars>>

WidgetNext == DoConstruct \/ DoSetValue \/ DoWidgetEvents

WidgetSpec == WidgetInit /\ [][WidgetNext]_vars

\* the slot whose widget the step constructs, with the register it binds
Built(slot) == widgets[slot].kind = "none" /\ widgets'[slot].kind # "none"

\* C8: first writer wins: when a widget is constructed with a register name
\* under which an earlier widget has already put a value other than None,
\* the construction leaves the value of that register as it was.
C8_FirstWriterWins ==
    [][\A slot \in Slots, name \in Names :
        (/\ Built(slot)
         /\ widgets'[slot].name = name
         /\ registers[name] # 0
         /\ cells[registers[name]] # NoneV)
        => cells'[registers[name]] = cells[registers[name]]]_vars

\* what the value property of widget w returns when its register holds
\* content and w is not a text input showing the text being typed
ReadAs(w, content) ==
    CASE IsSlider(w) -> Over(content, Track(w))
      [] w.kind = "numeric" -> ToFloat(content)
      [] OTHER -> content

\* widgets a and b, constructed, are bound to the same register name
Sharing(a, b) ==
    /\ a # b
    /\ widgets[a].kind # "none"
    /\ widgets[b].kind # "none"
    /\ widgets[a].name = widgets[b].name
    /\ widgets[a].name # NoName

\* the last call wrote the register of widget a: it was a setter or a frame
\* of input (a drag, a turn of the wheel, a commit) and changed the content
Written(a) == last.op \in {"set", "events"} /\ a \in last.written

\* C9 as stated: for two widgets bound to the same register name, after a
\* write to the register of one (by drag, scroll, commit or setter) the
\* value read from the other is the newly written content.
C9_SharedReadReflectsWrite ==
    \A a, b \in Slots :
        (Sharing(a, b) /\ Written(a))
        => WidgetValue(WidgetState, b) = ReadAs(widgets[b], Reg(WidgetState, a))

\* C9 amended: as above, unless the other widget is a TextInput that is
\* active, whose value is the text being typed; either way the two widgets
\* hold the same Register.
C9_SharedReadReflectsWriteUnlessEditing ==
    \A a, b \in Slots :
        /\ Sharing(a, b) => widgets[a].cell = widgets[b].cell
        /\ (Sharing(a, b) /\ Written(a))
           => \/ widgets[b].kind = "text" /\ widgets[b].active
              \/ WidgetValue(WidgetState, b)
                    = ReadAs(widgets[b], Reg(WidgetState, a))

\* a horizontal slider dragged to the end of its track and a numeric input
\* bound to the same register, which reads 4.0
C9_Witness ==
    /\ last.op = "events"
    /\ last.written = {"w1", "w2"}
    /\ widgets["w1"].kind = "hslider"
    /\ widgets["w1"].hold
    /\ widgets["w2"].kind = "numeric"
    /\ widgets["w1"].cell = widgets["w2"].cell
    /\ Reg(WidgetState, "w1") = Num(4, 1)
    /\ WidgetValue(WidgetState, "w2") = Num(4, 1)
    /\ WidgetValue(WidgetState, "w1") = Num(1, 1)

\* C36: the value read from a slider is always a ratio in [0, 1] and its
\* register always holds a pixel offset in [0, track length], after any
\* sequence of drags, scrolls, resets and writes made to the same register
\* by the widgets that share its name: another slider of a different
\* length, or a NumericInput.
C36_SliderWithinTrack ==
    (\A other \in Slots :
        IsSlider(widgets[other]) \/ widgets[other].kind \in {"numeric", "none"})
    => \A slot \in Slots :
          IsSlider(widgets[slot]) =>
              /\ IsNumber(Reg(WidgetState, slot))
              /\ ~RLess(Reg(WidgetState, slot), Zero)
              /\ ~RLess(Num(Track(widgets[slot]), 1), Reg(WidgetState, slot))
              /\ SliderValue(WidgetState, slot) # ErrV
              /\ ~RLess(SliderValue(WidgetState, slot), Zero)
              /\ ~RLess(Num(1, 1), SliderValue(WidgetState, slot))

(***************************************************************************)
(* One slider: its construction and assignments to its value.              *)
(***************************************************************************)
MaxTrack == 6

TrackLengths == 1 .. MaxTrack

\* the values assigned: the floats nearest to -0.2, -0.1, ..., 1.3
RoundTripInputs == {Fl(k, 10) : k \in -2 .. 13}

DoBuildSlider ==
    \E kind \in {"hslider", "vslider"}, length \in TrackLengths :
        /\ widgets["w1"].kind = "none"
        /\ \E ws \in {SliderConstruct(WidgetState, "w1", kind, "r", length, Zero)} :
                /\ registers' = ws.registers
                /\ cells' = ws.cells
                /\ widgets' = ws.widgets
        /\ last' = [op |-> "build"]
        /\ UNCHANGED <<guiVars, mouse, dropdown, floating, loopVars>>

\* slider.value = v
DoAssignValue ==
    \E v \in RoundTripInputs :
        /\ IsSlider(widgets["w1"])
        /\ \E ws \in {SliderSet(WidgetState, "w1", v)} :
                /\ registers' = ws.registers
                /\ cells' = ws.cells
                /\ widgets' = ws.widgets
        /\ last' = [op |-> "assign", v |-> v]
        /\ UNCHANGED <<guiVars, mouse, dropdown, floating, loopVars>>

SliderNext == DoBuildSlider \/ DoAssignValue

SliderSpec == Init /\ [][SliderNext]_vars

One == Num(1, 1)

\* min(max(v, 0), 1)
Clamp01(v) == PyMin(PyMax(v, Zero), One)

\* C10 as stated: after value := v the value read from a slider is
\* min(max(v, 0), 1).
C10_RoundTrip ==
    last.op = "assign" => SliderValue(WidgetState, "w1") = Clamp01(last.v)

\* v times the track length is a float: the product is not rounded
ExactProduct(v, length) == Times(v, length) = Num(v.n * length, v.d)

\* |x - y| <= 3 * 2^-Precision * y, for floats x and y >= 0 (the larger of
\* two powers of two is a common denominator)
Within(x, y) ==
    LET den == IF x.d > y.d THEN x.d ELSE y.d
        xn == x.n * (den \div x.d)
        yn == y.n * (den \div y.d)
    IN  Abs(xn - yn) * Pow2(Precision) <= 3 * yn

\* C10 amended: after value := v the value read is min(max(v, 0), 1) when
\* v <= 0, when v >= 1 and when v times the track length is exact, as it is
\* for 0, 0.5 and 1; otherwise it is within two roundings of v.
C10_RoundTripUpToRounding ==
    last.op = "assign" =>
        LET v == last.v
            read == SliderValue(WidgetState, "w1")
        IN  /\ (~RLess(Zero, v) \/ ~RLess(v, One)
                \/ ExactProduct(v, Track(widgets["w1"])))
               => read = Clamp01(v)
            /\ v \in {Zero, Fl(1, 2), One} => read = v
            /\ Within(read, Clamp01(v))

\* 1.3 assigned to a vertical slider reads back as 1, and the register holds
\* the length of the track
C10_Witness ==
    /\ last.op = "assign"
    /\ last.v = Fl(13, 10)
    /\ widgets["w1"].kind = "vslider"
    /\ Reg(WidgetState, "w1") = Num(widgets["w1"].height, 1)
    /\ SliderValue(WidgetState, "w1") = One


(***************************************************************************)
(* One NumericInput with limits (0, 10) and increment 1: its construction  *)
(* and frames of input in which text is typed and committed.               *)
(***************************************************************************)
MaxInput == 4

\* limits=(0, 10)
NumericLimits == <<Num(0, 1), Num(10, 1)>>

\* the value the input is constructed with
NumericStarts == {Fl(0, 1), Fl(5, 1), Fl(10, 1)}

NumericKeys == {"1", "5", ".", "-", "+", "BACKSPACE", "RETURN", "ESCAPE"}

\* the frames of input, one event per frame, the pointer over the input or
\* away from it: a key, a pointer at rest, a press of button 0
NumericSnapshots ==
    {Snap(FALSE, FALSE, FALSE, 0, key, over, 1) :
        key \in NumericKeys \cup {""}, over \in {"w1", "none"}}
    \cup {Snap(TRUE, TRUE, FALSE, 0, "", over, 1) : over \in {"w1", "none"}}

\* the frame calls deactivate on the active input: RETURN, or a press of
\* button 0 (an active input is deactivated wherever the press lands)
Commits(snap) ==
    widgets["w1"].active /\ (snap.press0 \/ snap.key = "RETURN")

\* what the frame did; of a frame that commits, the text committed and the
\* value held before it
NumericCall(op, commits) ==
    IF commits
    THEN [op |-> op, text |-> widgets["w1"].visible.s,
          before |-> Reg(WidgetState, "w1")]
    ELSE [op |-> op]

DoBuildNumeric ==
    \E value \in NumericStarts :
        /\ Running
        /\ widgets["w1"].kind = "none"
        /\ \E ws \in {NumericInputConstruct(WidgetState, "w1", "r", value,
                                            NumericLimits, 1, 2)} :
            /\ ~ws.error
            /\ focused' = ws.focused
            /\ registers' = ws.registers
            /\ cells' = ws.cells
            /\ widgets' = ws.widgets
        /\ last' = [op |-> "build"]
        /\ UNCHANGED <<active_groups, switch_value, dispatched, replays,
                       painted, mouse, dropdown, floating, loopVars>>

DoNumericEvents ==
    \E snap \in NumericSnapshots :
        /\ Running
        /\ widgets["w1"].kind = "numeric"
        /\ \E ws \in {PanelEvents(WidgetState, snap, <<"w1">>)} :
            IF ws.error
            THEN /\ last' = NumericCall("error", Commits(snap))
                 /\ UNCHANGED <<focused, registers, cells, widgets>>
            ELSE /\ Len(ws.widgets["w1"].visible.s) <= MaxInput
                 /\ focused' = ws.focused
                 /\ registers' = ws.registers
                 /\ cells' = ws.cells
                 /\ widgets' = ws.widgets
                 /\ last' = NumericCall(IF Commits(snap) THEN "commit"
                                        ELSE "input", Commits(snap))
        /\ UNCHANGED <<active_groups, switch_value, dispatched, replays,
                       painted, mouse, dropdown, floating, loopVars>>

NumericNext == DoBuildNumeric \/ DoNumericEvents

NumericSpec == WidgetInit /\ [][NumericNext]_vars

\* C11: with limits (0, 10), committing the text "15" yields the value 10,
\* committing "-5" yields 0 and committing the empty text yields 0, whatever
\* the value was before.
C11_CommitClamps ==
    last.op = "commit" =>
        /\ last.text = <<"1", "5">>
                => NumericInputValue(WidgetState, "w1") = Num(10, 1)
        /\ last.text = <<"-", "5">>
                => NumericInputValue(WidgetState, "w1") = Num(0, 1)
        /\ last.text = <<>>
                => NumericInputValue(WidgetState, "w1") = Num(0, 1)

\* the text is not empty and float(text) raises ValueError
Malformed(text) == text # <<>> /\ ParseFloat(text) = ErrV

\* C12: committing a text over the typeable alphabet that is not a valid
\* number raises no exception and leaves the value as it was.
C12_MalformedRejected ==
    /\ last.op = "error" => "text" \in DOMAIN last /\ ~Malformed(last.text)
    /\ (last.op = "commit" /\ Malformed(last.text))
            => Reg(WidgetState, "w1") = last.before

(***************************************************************************)
(* LimitsSpec: one NumericInput with limits, alone on its register, under  *)
(* value assignments, commits and wheel nudges.                            *)
(***************************************************************************)
\* the limits the input is constructed with
LimitChoices == {<<Num(0, 1), Num(3, 1)>>, <<Num(1, 1), Num(3, 1)>>}

\* the values the input is constructed with and those assigned to it: floats
\* below, inside and above the limits, the empty text, malformed texts, a text
\* that reads as a number
Assigned ==
    {Fl(-1, 1), Fl(2, 1), Fl(7, 2), Str(<<>>), Str(<<"a">>), Str(<<"-">>),
     Str(<<"4">>)}

\* the frames of input: a key, a press of button 0, a notch of the wheel
LimitSnapshots ==
    {Snap(FALSE, FALSE, FALSE, 0, key, "none", 1) :
        key \in {"4", "-", "BACKSPACE", "RETURN"}}
    \cup {Snap(TRUE, TRUE, FALSE, 0, "", over, 1) : over \in {"w1", "none"}}
    \cup {Snap(FALSE, FALSE, FALSE, scroll, "", "w1", 1) : scroll \in {-1, 1}}

DoBuildLimited ==
    \E value \in {v \in Assigned : IsNumber(v)}, limits \in LimitChoices :
        /\ Running
        /\ widgets["w1"].kind = "none"
        /\ \E ws \in {NumericInputConstruct(WidgetState, "w1", "r", value,
                                            limits, 1, 2)} :
            /\ ~ws.error
            /\ focused' = ws.focused
            /\ registers' = ws.registers
            /\ cells' = ws.cells
            /\ widgets' = ws.widgets
        /\ last' = [op |-> "build"]
        /\ UNCHANGED <<active_groups, switch_value, dispatched, replays,
                       painted, mouse, dropdown, floating, loopVars>>

\* input.value = new
DoAssignLimited ==
    \E new \in Assigned :
        /\ Running
        /\ widgets["w1"].kind = "numeric"
        /\ \E ws \in {NumericInputSet(WidgetState, "w1", new)} :
            IF ws.error
            THEN /\ last' = [op |-> "error"]
                 /\ UNCHANGED <<focused, registers, cells, widgets>>
            ELSE /\ focused' = ws.focused
                 /\ registers' = ws.registers
                 /\ cells' = ws.cells
                 /\ widgets' = ws.widgets
                 /\ last' = [op |-> "assign", new |-> new]
        /\ UNCHANGED <<active_groups, switch_value, dispatched, replays,
                       painted, mouse, dropdown, floating, loopVars>>

DoLimitedEvents ==
    \E snap \in LimitSnapshots :
        /\ Running
        /\ widgets["w1"].kind = "numeric"
        /\ \E ws \in {PanelEvents(WidgetState, snap, <<"w1">>)} :
            IF ws.error
            THEN /\ last' = [op |-> "error"]
                 /\ UNCHANGED <<focused, registers, cells, widgets>>
            ELSE /\ Len(ws.widgets["w1"].visible.s) <= MaxInput
                 /\ focused' = ws.focused
                 /\ registers' = ws.registers
                 /\ cells' = ws.cells
                 /\ widgets' = ws.widgets
                 /\ last' = [op |-> "events", scroll |-> snap.scroll]
        /\ UNCHANGED <<active_groups, switch_value, dispatched, replays,
                       painted, mouse, dropdown, floating, loopVars>>

LimitsNext == DoBuildLimited \/ DoAssignLimited \/ DoLimitedEvents

LimitsSpec == WidgetInit /\ [][LimitsNext]_vars

\* C35: a NumericInput with limits (min, max) always holds a value inside
\* [min, max]: after construction and after any sequence of commits, wheel
\* nudges and value assignments, the empty and malformed texts included.
C35_ValueWithinLimits ==
    widgets["w1"].kind = "numeric" =>
        /\ NumericInputValue(WidgetState, "w1") # ErrV
        /\ ~RLess(NumericInputValue(WidgetState, "w1"), widgets["w1"].lo)
        /\ ~RLess(widgets["w1"].hi, NumericInputValue(WidgetState, "w1"))

(***************************************************************************)
(* InputSpec: a TextInput or NumericInput and the widgets that share its   *)
(* register, over frames of keys, presses and drags.  last.held is, for    *)
(* every input, the content of its register before the frame that          *)
(* activated it; last.editing holds the active inputs that have been given *)
(* nothing but characters and backspaces since; last.stable holds those    *)
(* whose register content was, at the activation, a value their own setter *)
(* stores unchanged and that no other widget wrote in the frame of the     *)
(* activation; last.escaped holds the inputs being edited whose handler    *)
(* was given the ESCAPE key by the last frame.                             *)
(***************************************************************************)
\* the constructor arguments: a slider, a NumericInput with limits (0, 2),
\* and TextInputs with and without a text
InputArgs ==
    {Args("hslider", TrackOf("hslider"), Fl(1, 2), NoLimits),
     Args("numeric", 0, Fl(1, 1), <<Num(0, 1), Num(2, 1)>>),
     Args("text", 0, NoneV, NoLimits),
     Args("text", 0, Str(<<"a">>), NoLimits)}

\* the frames of input: a key typed, a key that ends the editing with the
\* pointer anywhere, a press of button 0, a drag with button 0 held
InputSnapshots ==
    {Snap(FALSE, FALSE, FALSE, 0, key, "none", 1) : key \in {"BACKSPACE", "1"}}
    \cup {Snap(FALSE, FALSE, FALSE, 0, key, over, 1) :
            key \in {"RETURN", "ESCAPE"}, over \in Pointers}
    \cup {Snap(TRUE, TRUE, FALSE, 0, "", over, 1) : over \in Pointers}
    \cup {Snap(FALSE, TRUE, FALSE, 0, "", "none", rel) : rel \in Offsets}

IsInput(w) == w.kind \in {"text", "numeric"}

\* the widgets Gui.events hands the frame to
Dispatched(slot) ==
    IF focused # {} THEN slot \in focused ELSE widgets[slot].kind # "none"

\* the register contents remembered from the activations
Held(ws) ==
    [slot \in Slots |->
        IF IsInput(widgets[slot]) /\ ~widgets[slot].active
           /\ ws.widgets[slot].active
        THEN Reg(WidgetState, slot)
        ELSE IF last.op = "frame" THEN last.held[slot] ELSE NoneV]

\* the inputs activated by the frame
Activated(ws) ==
    {slot \in Slots : /\ IsInput(widgets[slot]) /\ ~widgets[slot].active
                      /\ ws.widgets[slot].active}

\* the inputs given only characters and backspaces since their activation
Editing(ws, snap) ==
    Activated(ws)
    \cup {slot \in (IF last.op = "frame" THEN last.editing ELSE {}) :
            /\ ws.widgets[slot].active
            /\ snap.key \in {"BACKSPACE", "1"}
            /\ Dispatched(slot)}

\* the register holds a number where the input is a NumericInput, and the
\* value setter of the input stores the content of the register unchanged
SetterKeeps(slot) ==
    /\ widgets[slot].kind = "numeric" => IsNumber(Reg(WidgetState, slot))
    /\ \/ ~Truthy(Reg(WidgetState, slot))
       \/ Reg(InputSet(WidgetState, slot, Reg(WidgetState, slot)), slot)
               = Reg(WidgetState, slot)

\* the inputs whose register the frame of their activation left alone, with a
\* content their setter keeps
Stable(ws) ==
    {slot \in Activated(ws) :
        SetterKeeps(slot) /\ Reg(ws, slot) = Reg(WidgetState, slot)}
    \cup ((IF last.op = "frame" THEN last.stable ELSE {}) \ Activated(ws))

Escaped(snap) ==
    {slot \in (IF last.op = "frame" THEN last.editing ELSE {}) :
        snap.key = "ESCAPE" /\ Dispatched(slot)}

\* the inputs being edited that the frame gave a character or a backspace
Typed(ws, snap) == Editing(ws, snap) \ Activated(ws)

\* the widgets whose register holds after the frame what it held before
Kept(ws) ==
    {slot \in Slots :
        widgets[slot].kind # "none" /\ Reg(ws, slot) = Reg(WidgetState, slot)}

\* the texts and numbers followed
InputFits(ws) ==
    /\ \A cell \in 1 .. Len(ws.cells) :
            /\ IsNumber(ws.cells[cell]) =>
                    Abs(ws.cells[cell].n) <= MaxValue * ws.cells[cell].d
            /\ Len(ws.cells[cell].s) <= MaxInput
    /\ \A slot \in Slots : Len(ws.widgets[slot].visible.s) <= MaxInput

DoBuildInput ==
    \E slot \in Slots, a \in InputArgs :
        /\ Running
        /\ widgets[slot].kind = "none"
        /\ slot = "w2" => widgets["w1"].kind # "none"
        /\ \E ws \in {Construct(WidgetState, slot, "r", a)} :
            /\ ~ws.error
            /\ focused' = ws.focused
            /\ registers' = ws.registers
            /\ cells' = ws.cells
            /\ widgets' = ws.widgets
        /\ last' = [op |-> "build"]
        /\ UNCHANGED <<active_groups, switch_value, dispatched, replays,
                       painted, mouse, dropdown, floating, loopVars>>

DoInputFrame ==
    \E snap \in InputSnapshots, order \in SlotOrders :
        /\ Running
        /\ SnapshotFits(snap)
        /\ \E ws \in {PanelEvents(WidgetState, snap, order)} :
            IF ws.error
            THEN /\ last' = [op |-> "error", escaped |-> Escaped(snap),
                             stable |-> IF last.op = "frame" THEN last.stable
                                        ELSE {}]
                 /\ UNCHANGED <<focused, registers, cells, widgets>>
            ELSE /\ InputFits(ws)
                 /\ focused' = ws.focused
                 /\ registers' = ws.registers
                 /\ cells' = ws.cells
                 /\ widgets' = ws.widgets
                 /\ last' = [op |-> "frame", escaped |-> Escaped(snap),
                             held |-> Held(ws), editing |-> Editing(ws, snap),
                             stable |-> Stable(ws), typed |-> Typed(ws, snap),
                             kept |-> Kept(ws)]
        /\ UNCHANGED <<active_groups, switch_value, dispatched, replays,
                       painted, mouse, dropdown, floating, loopVars>>

InputNext == DoBuildInput \/ DoInputFrame

InputSpec == WidgetInit /\ [][InputNext]_vars

C34_EditingKeepsRegister ==
    /\ \A slot \in Slots :
           (IsInput(widgets[slot]) /\ ~widgets[slot].active)
           => Activate(WidgetState, slot).cells = cells
    /\ last.op = "frame" => last.typed \subseteq last.kept

\* C34 happens: a character was typed into an input being edited, whose
\* buffer now differs from what its register holds
C34_Witness ==
    /\ last.op = "frame"
    /\ \E slot \in last.typed \cap last.kept :
           /\ widgets[slot].active
           /\ widgets[slot].visible.s # <<>>
           /\ widgets[slot].visible # Reg(WidgetState, slot)

(***************************************************************************)
(* HoldSpec: a slider of the main group and a FloatingWindow that may lie  *)
(* over it, under the samples of button 0 and the pointer.  The registry   *)
(* part of a frame is Gui.events above; the slider's handler runs once for *)
(* every time the main group is dispatched.  last.grip tells that button 0 *)
(* was pressed with the pointer over the slider and has been held since.   *)
(***************************************************************************)
\* what lies under the pointer
Unders == SUBSET {"slider", "window"}

\* the offsets of the pointer from the start of the track
HoldOffsets == -1 .. TrackOf("hslider")

\* the raw hold states with button 0 down or up
RawOf(down) == [b \in Buttons |-> b = 0 /\ down]

\* the frame as the handlers of the registry read it
RegistrySnap(m, under) ==
    [press |-> m.click[0],
     at |-> [w \in Windows |->
                IF w = "winA" /\ "window" \in under /\ m.click[0] THEN "body"
                ELSE "out"],
     hov |-> [t \in Widgets |-> FALSE],
     key |-> ""]

\* the frame as the slider reads it
SliderSnap(m, under, rel) ==
    Snap(m.click[0], m.hold[0], FALSE, 0, "",
         IF "slider" \in under THEN "w1" ELSE "none", rel)

RECURSIVE HandledTimes(_, _, _)
\* the slider's handler, run once per dispatch of its group
HandledTimes(ws, n, snap) ==
    IF n = 0 THEN ws ELSE HandledTimes(WidgetEvents(ws, "w1", snap), n - 1, snap)

\* how often the frame dispatched the main group
MainDispatches(log) == Len(SelectSeq(log, LAMBDA e : e[2] = "main"))

\* the groups and the slider are built, the groups active
DoBuildHeld ==
    \E kind \in {"hslider", "vslider"} :
        /\ last.op = "none"
        /\ \E ws \in {SliderConstruct(WidgetState, "w1", kind, "r",
                                      TrackOf(kind), Zero)} :
            /\ ~ws.error
            /\ registers' = ws.registers
            /\ cells' = ws.cells
            /\ widgets' = ws.widgets
        /\ active_groups' = ActivateGroup(GuiState, {"main", "winA"}).active
        /\ last' = [op |-> "build", grip |-> FALSE, moved |-> FALSE, sent |-> 0]
        /\ UNCHANGED <<focused, switch_value, dispatched, replays, painted,
                       mouse, dropdown, floating, loopVars>>

\* a frame: Mouse.update, then Gui.events
DoHoldFrame ==
    \E down \in BOOLEAN, under \in Unders, rel \in HoldOffsets,
       tie \in TieOrders :
        /\ last.op \in {"build", "frame"}
        /\ "slider" \in under <=> (0 <= rel /\ rel < Track(widgets["w1"]))
        /\ mouse' = MouseUpdate(mouse, RawOf(down))
        /\ \E s \in {GuiEvents(GuiState, RegistrySnap(mouse', under), tie, 0)} :
            /\ ~s.overflow
            /\ active_groups' = s.active
            /\ focused' = s.focused
            /\ switch_value' = s.switch
            /\ dispatched' = s.log
            /\ replays' = s.replays
            /\ \E ws \in {HandledTimes(WidgetState, MainDispatches(s.log),
                                SliderSnap(mouse', under, rel))} :
                /\ ~ws.error
                /\ registers' = ws.registers
                /\ cells' = ws.cells
                /\ widgets' = ws.widgets
                /\ last' = [op |-> "frame",
                            grip |-> \/ mouse'.click[0] /\ "slider" \in under
                                     \/ last.grip /\ down,
                            moved |-> ws.cells # cells,
                            sent |-> MainDispatches(s.log)]
        /\ UNCHANGED <<painted, dropdown, floating, loopVars>>

HoldNext == DoBuildHeld \/ DoHoldFrame

HoldSpec == Init /\ [][HoldNext]_vars

\* C37: drag tracking stops with the button. At the end of every tick the
\* hold flag of a slider is true only if button 0 is held and the hold
\* started with a press of button 0 over the slider, and the register of the
\* slider follows the pointer only in such a tick, also across ticks in which
\* the slider's group was not dispatched because the focus was held elsewhere.
C37_HoldStopsWithButton ==
    last.op = "frame" =>
        /\ widgets["w1"].hold => (mouse.hold[0] /\ last.grip)
        /\ last.moved => (mouse.hold[0] /\ last.grip)

(***************************************************************************)
(* DropdownSpec: one Dropdown.  The class exists twice, in engine/gui.py,  *)
(* whose Switch keeps active in a plain attribute, and in                  *)
(* engine/gui/widgets.py, whose Switch exposes active as a property        *)
(* without a setter and which does not import floor; the field module      *)
(* tells which of the two was constructed.  Items are numbered in the      *)
(* order of items.names(); order is the display order _order.  Only the    *)
(* vertical offset of the pointer from the top of the widget is followed.  *)
(* raised names the exception that left a method, "" for none.             *)
(***************************************************************************)
MaxItems == 5

MaxStep == 3

\* the height of one row of text, text_size + 5, in the units of the
\* pointer offset; the label the constructor measures is one row high
RowHeight == 2

Modules == {"gui", "widgets"}

\* items.names()
ItemNames(d) == [i \in 1 .. d.length |-> i]

\* sorted(names, key=lambda item: int(item != selected)): a stable sort
SortSelectedFirst(names, selected) ==
    SelectSeq(names, LAMBDA item : item = selected)
        \o SelectSeq(names, LAMBDA item : item # selected)

\* Dropdown.select
Select(d, selected) ==
    [d EXCEPT !.order = SortSelectedFirst(ItemNames(d), selected)]

\* Dropdown.__init__ of the class in file module, over n items, with
\* initial = the item of that number, or None for 0
DropdownConstruct(module, n, initial) ==
    Select([module |-> module, length |-> n, hovered_index |-> 0,
            order |-> <<>>, active |-> FALSE, last_active |-> FALSE,
            activated |-> FALSE, deactivated |-> FALSE,
            hovered |-> FALSE, pressed |-> FALSE,
            height |-> RowHeight, raised |-> ""], initial)

\* an exception leaves the method
Throw(d, exception) == [d EXCEPT !.raised = exception]

\* Dropdown.step, the two tests after self._hovered_index += direction
WrapLow(d) ==
    IF d.hovered_index < 0 THEN [d EXCEPT !.hovered_index = d.length - 1]
    ELSE d

WrapHigh(d) ==
    IF d.hovered_index >= d.length THEN [d EXCEPT !.hovered_index = 0] ELSE d

\* Dropdown.step
StepClamped(d, direction) ==
    WrapHigh([d EXCEPT !.hovered_index =
                 IF @ + direction < 0 THEN 0 ELSE @ + direction])

\* a mutant of Step: the index is moved and not wrapped
StepUnwrapped(d, direction) == [d EXCEPT !.hovered_index = @ + direction]

Step(d, direction) ==
    WrapHigh(WrapLow([d EXCEPT !.hovered_index = @ + direction]))

\* q[i] of a Python list is defined for -len(q) <= i < len(q)
InRange(q, i) == 0 - Len(q) <= i /\ i < Len(q)

\* q[i] of a Python list
PyItem(q, i) == IF i >= 0 THEN q[i + 1] ELSE q[Len(q) + i + 1]

\* Dropdown.selected
Selected(d) == PyItem(d.order, 0)

\* self.select(q[self._hovered_index]), with the IndexError of the lookup
SelectAt(d, q) ==
    IF d.raised # "" THEN d
    ELSE IF InRange(q, d.hovered_index)
         THEN Select(d, PyItem(q, d.hovered_index))
         ELSE Throw(d, "IndexError")

\* self.active = value: an attribute of the Switch of engine/gui.py, a
\* property without a setter in engine/gui/widgets.py
SetActive(d, value) ==
    IF d.raised # "" THEN d
    ELSE IF d.module = "widgets" THEN Throw(d, "AttributeError")
         ELSE [d EXCEPT !.active = value]

\* self._hovered_index = 0
ResetIndex(d) == IF d.raised # "" THEN d ELSE [d EXCEPT !.hovered_index = 0]

\* Widget.events: hovered and pressed
DropdownFlags(d, y, press) ==
    [d EXCEPT !.hovered = 0 <= y /\ y < d.height,
              !.pressed = 0 <= y /\ y < d.height /\ press]

\* Switch.events
SwitchEvents(d) ==
    [d EXCEPT !.activated = d.active /\ ~d.last_active,
              !.deactivated = d.last_active /\ ~d.active,
              !.last_active = d.active]

\* Dropdown.events: if self.pressed
OnPress(d) ==
    IF ~d.pressed THEN d
    ELSE IF d.active
         THEN ResetIndex(SelectAt(SetActive(d, FALSE), d.order))
         ELSE SetActive(d, TRUE)

\* floor(pos * self._length / self.height); floor is not imported by
\* engine/gui/widgets.py
HoverIndex(d, y) ==
    IF d.module = "widgets" THEN Throw(d, "NameError")
    ELSE [d EXCEPT !.hovered_index = (y * d.length) \div d.height]

\* the closed dropdown under the wheel: step, then select
ScrollSelect(d, scroll) ==
    IF scroll = 0 THEN d ELSE SelectAt(Step(d, scroll), ItemNames(d))

\* Dropdown.events: if self.hovered ... else
OnHover(d, y, scroll) ==
    IF d.raised # "" THEN d
    ELSE IF d.hovered
         THEN IF d.active THEN HoverIndex(d, y) ELSE ScrollSelect(d, scroll)
         ELSE SetActive(d, FALSE)

\* Dropdown.events, as far as it changes the dropdown
DropdownEvents(d, y, press, scroll) ==
    OnHover(OnPress(SwitchEvents(DropdownFlags(d, y, press))), y, scroll)

\* Dropdown.events: focus_widget(self, overwrite=True) when activated,
\* release_widget(self) when deactivated; the group of the dropdown is active
DropdownFocus(d, f) ==
    IF d.raised # "" THEN f
    ELSE IF d.activated THEN {"dropdown"}
    ELSE IF d.deactivated THEN f \ {"dropdown"}
    ELSE f

\* Dropdown.render: the rows painted give the rectangle its height
DropdownRender(d) ==
    IF d.raised # "" THEN d
    ELSE [d EXCEPT !.height =
             IF d.active THEN d.length * RowHeight
             ELSE IF d.length > 0 THEN RowHeight ELSE 0]

DropdownInit ==
    /\ active_groups = {Panel}
    /\ focused = {}
    /\ switch_value = [t \in TextInputs |-> FALSE]
    /\ last = NoCall
    /\ dispatched = <<>>
    /\ replays = 0
    /\ painted = <<>>
    /\ mouse = MouseInitial
    /\ RegisterInit
    /\ widgets = [slot \in Slots |-> NoWidget]
    /\ floating = NoFloating
    /\ machine = NoMachine
    /\ timer = NoTimer
    /\ \E module \in Modules, n \in 0 .. MaxItems :
           \E initial \in 0 .. n :
               dropdown = DropdownConstruct(module, n, initial)

\* step(direction) called on the dropdown
DoStep ==
    \E direction \in -MaxStep .. MaxStep :
        /\ dropdown.raised = ""
        /\ dropdown' = Step(dropdown, direction)
        /\ last' = [op |-> "step", direction |-> direction,
                    from |-> dropdown.hovered_index]
        /\ UNCHANGED <<guiVars, mouse, regVars, floating, loopVars>>

\* the property selected is read
DoSelected ==
    /\ dropdown.raised = ""
    /\ dropdown' = IF InRange(dropdown.order, 0) THEN dropdown
                   ELSE Throw(dropdown, "IndexError")
    /\ last' = [op |-> "selected"]
    /\ UNCHANGED <<guiVars, mouse, regVars, floating, loopVars>>

\* a frame: the dropdown's events, then its render
DoFrame ==
    \E y \in -1 .. MaxItems * RowHeight, press \in BOOLEAN,
       scroll \in -MaxStep .. MaxStep :
        \E d \in {DropdownEvents(dropdown, y, press, scroll)} :
            /\ dropdown.raised = ""
            /\ dropdown' = DropdownRender(d)
            /\ focused' = DropdownFocus(d, focused)
            /\ last' = [op |-> "frame", scroll |-> scroll,
                        active |-> dropdown.active,
                        order |-> dropdown.order,
                        hovered_index |-> dropdown.hovered_index]
            /\ UNCHANGED <<active_groups, switch_value, dispatched, replays,
                           painted, mouse, regVars, floating, loopVars>>

DropdownNext == DoStep \/ DoSelected \/ DoFrame

DropdownSpec == DropdownInit /\ [][DropdownNext]_vars

\* C13: for a dropdown with N >= 1 items, step(+1) from hovered index N-1
\* yields index 0 and step(-1) from hovered index 0 yields index N-1.
C13_StepWraps ==
    last.op = "step" =>
        /\ (last.direction = 1 /\ last.from = dropdown.length - 1)
                => dropdown.hovered_index = 0
        /\ (last.direction = -1 /\ last.from = 0)
                => dropdown.hovered_index = dropdown.length - 1

\* step(-1) from index 0 of three items has moved to index 2
C13_Witness ==
    /\ last.op = "step"
    /\ last.direction = -1
    /\ last.from = 0
    /\ dropdown.length = 3
    /\ dropdown.hovered_index = 2

\* C32: Dropdown.step(direction) wraps modulo the item count in both
\* directions for every integer direction: the new hovered index is
\* (old index + direction) mod N, also for steps of magnitude above 1.
C32_StepIsModular ==
    (last.op = "step" /\ dropdown.length >= 1) =>
        dropdown.hovered_index
            = (last.from + last.direction) % dropdown.length

\* C27: constructing a Dropdown over a zero-length item set raises at
\* construction, instead of giving a widget that fails later in its input
\* handling or when its selected item is read.
C27_ZeroLengthFailsFast ==
    (last.op = "none" /\ dropdown.length = 0) => dropdown.raised # ""

\* C28: a press of button 0 on an open dropdown makes the item at the
\* hovered index the first of the display order, keeps the other items in
\* their original relative order, resets the hovered index to 0 and
\* collapses the dropdown; a press on a closed dropdown opens it and leaves
\* the selected item as it was.
C28_PressSelectsOrOpens ==
    (last.op = "frame" /\ dropdown.pressed) =>
        /\ dropdown.raised = ""
        /\ IF last.active
           THEN /\ InRange(last.order, last.hovered_index)
                /\ dropdown.order =
                       SortSelectedFirst(ItemNames(dropdown),
                                         PyItem(last.order, last.hovered_index))
                /\ Selected(dropdown) = PyItem(last.order, last.hovered_index)
                /\ dropdown.hovered_index = 0
                /\ ~dropdown.active
           ELSE /\ dropdown.active
                /\ dropdown.order = last.order

\* C38: for a dropdown with N >= 1 items the hovered index stays within
\* 0 .. N-1 after any sequence of input passes (open, hover at any offset
\* inside the widget, select, collapse when the pointer leaves, wheel steps
\* of any size while closed), and indexing the display order or the item
\* names with it never raises IndexError.
C38_HoveredIndexInRange ==
    dropdown.length >= 1 =>
        /\ 0 <= dropdown.hovered_index
        /\ dropdown.hovered_index < dropdown.length
        /\ dropdown.raised # "IndexError"

\* C38 happens: a frame hovered the last row of an open dropdown of three or
\* more items
C38_Witness ==
    /\ last.op = "frame" /\ dropdown.length >= 3
    /\ dropdown.active /\ dropdown.raised = ""
    /\ dropdown.hovered_index = dropdown.length - 1

(***************************************************************************)
(* One FloatingWindow dragged by its header.  floating holds Mouse.pos and *)
(* Mouse._drag[0] next to the window's rectangles: topleft and _base of    *)
(* the body, the bottomleft of the header, the topright of the close       *)
(* control and the _anchor of the children.  A tick is Mouse.update and    *)
(* then Gui.events.  Two fields are history: press_pos, the pointer at the *)
(* tick of the last press of button 0, and over, the part of the window    *)
(* under the pointer when the handlers of the last tick started.           *)
(***************************************************************************)
\* FloatingWindow.HEADER
Header == 40

\* FloatingWindow.GAP
Gap == 8

\* dim = (x, y, w, h) given to the constructor
WindowDim == <<0, 0, 100, 60>>

\* the window is not followed further than this from the origin
MaxDrift == 60

\* the pointer positions sampled: two in the header, one on the close
\* control, one in the body and one outside (for the window where it is
\* constructed)
PointerPositions ==
    {<<10, -20>>, <<30, -10>>, <<80, -20>>, <<30, 20>>, <<200, 200>>}

VAdd(a, b) == <<a[1] + b[1], a[2] + b[2]>>

VSub(a, b) == <<a[1] - b[1], a[2] - b[2]>>

\* FloatingWindow.float after self.topleft is assigned: the header, the
\* close control and the anchors of the children follow
Placed(fl, topleft) ==
    [fl EXCEPT !.topleft = topleft,
               !.header = topleft,
               !.close = <<topleft[1] + WindowDim[3] - Gap,
                           topleft[2] - Header + Gap>>,
               !.anchor = topleft]

\* FloatingWindow.__init__ and Mouse.__init__ with the pointer at pos
FloatingConstruct(pos) ==
    Placed([built |-> TRUE, pos |-> pos, drag0 |-> <<0, 0>>,
            topleft |-> <<0, 0>>, base |-> <<WindowDim[1], WindowDim[2]>>,
            header |-> <<0, 0>>, close |-> <<0, 0>>, anchor |-> <<0, 0>>,
            holded |-> FALSE, pressed |-> FALSE,
            press_pos |-> <<0, 0>>, over |-> "out"],
           <<WindowDim[1], WindowDim[2]>>)

\* pygame.Rect.collidepoint
Inside(p, left, top, w, h) ==
    left <= p[1] /\ p[1] < left + w /\ top <= p[2] /\ p[2] < top + h

\* the part of the window under the point p
Region(fl, p) ==
    IF Inside(p, fl.close[1] - (Header - 2 * Gap), fl.close[2],
              Header - 2 * Gap, Header - 2 * Gap)
    THEN "close"
    ELSE IF Inside(p, fl.header[1], fl.header[2] - Header, WindowDim[3], Header)
    THEN "header"
    ELSE IF Inside(p, fl.topleft[1], fl.topleft[2], WindowDim[3],
                   WindowDim[4] + Header)
    THEN "body"
    ELSE "out"

\* Mouse.update: pos, and _drag[0] while button 0 is up
PointerUpdate(fl, pos, hold0) ==
    [fl EXCEPT !.pos = pos, !.drag0 = IF ~hold0 THEN pos ELSE @]

\* Mouse.drag
Drag(fl) == VSub(fl.drag0, fl.pos)

\* FloatingWindow.float
Float(fl, vector) == Placed(fl, VSub(fl.base, vector))

\* FloatingWindow.events: header_holded
HeaderHold(fl, header_pressed, hold0) ==
    [fl EXCEPT !.holded = hold0 /\ (header_pressed \/ @)]

\* FloatingWindow.events: float(drag) while the header is held, else
\* snap(self.topleft)
FloatOrSnap(fl) ==
    IF fl.holded THEN Float(fl, Drag(fl)) ELSE [fl EXCEPT !.base = fl.topleft]

\* Widget.events and FloatingWindow.events: the pressed flag of the window,
\* hovered and pressed or header_pressed
WindowPressed(fl, region, click) ==
    [fl EXCEPT !.pressed = click /\ region # "out"]

\* FloatingWindow.events, as far as it moves the window or sets its flag
FloatingGeometry(fl, region, click, hold0) ==
    FloatOrSnap(HeaderHold(WindowPressed(fl, region, click),
                           region \in {"header", "close"} /\ click, hold0))

WindowInit ==
    /\ active_groups = {"winA"}
    /\ focused = {}
    /\ switch_value = [t \in TextInputs |-> FALSE]
    /\ last = NoCall
    /\ dispatched = <<>>
    /\ replays = 0
    /\ painted = <<>>
    /\ mouse = MouseInitial
    /\ RegisterInit
    /\ widgets = [slot \in Slots |-> NoWidget]
    /\ dropdown = NoDropdown
    /\ \E pos \in PointerPositions : floating = FloatingConstruct(pos)
    /\ machine = NoMachine
    /\ timer = NoTimer

\* the snapshot the handlers read in a tick
WindowSnap(m, region) ==
    [press |-> m.click[0],
     at |-> [w \in Windows |-> IF w = "winA" THEN region ELSE "out"],
     hov |-> [w \in Widgets |-> FALSE],
     key |-> ""]

\* the drag the tick starts, continues or ends: the rectangles before the
\* press on the header and the pointer at the press
DragRecord(fl, started, continued) ==
    IF started
    THEN [op |-> "tick", dragging |-> TRUE, topleft |-> floating.topleft,
          header |-> floating.header, close |-> floating.close,
          origin |-> fl.pos]
    ELSE IF continued /\ last.op = "tick" /\ last.dragging THEN last
    ELSE [op |-> "tick", dragging |-> FALSE]

\* the state after the handlers of a tick
WindowLand(m, s, fl, region, ran) ==
    /\ Abs(fl.topleft[1]) <= MaxDrift /\ Abs(fl.topleft[2]) <= MaxDrift
    /\ mouse' = m
    /\ floating' = [fl EXCEPT !.press_pos = IF m.click[0] THEN fl.pos ELSE @,
                              !.over = region]
    /\ Settle(s, DragRecord(fl,
                            ran /\ m.click[0] /\ region \in {"header", "close"},
                            ran /\ fl.holded))

DoTick ==
    \E pos \in PointerPositions, hold0 \in BOOLEAN :
        \E m \in {MouseUpdate(mouse, [b \in Buttons |-> b = 0 /\ hold0])},
           fl \in {PointerUpdate(floating, pos, hold0)} :
            \E s \in {GuiEvents(GuiState, WindowSnap(m, Region(fl, pos)),
                                <<"main", "winA", "winB">>, 0)} :
                /\ ~s.overflow
                /\ IF \E i \in 1 .. Len(s.log) : s.log[i][2] = "winA"
                   THEN WindowLand(m, s,
                                   FloatingGeometry(fl, Region(fl, pos),
                                                    m.click[0], hold0),
                                   Region(fl, pos), TRUE)
                   ELSE WindowLand(m, s, fl, Region(fl, pos), FALSE)
                /\ UNCHANGED <<regVars, dropdown, loopVars>>

WindowNext == DoTick

WindowSpec == WindowInit /\ [][WindowNext]_vars

\* C14: while button 0 stays held after a press on the header, after each
\* input pass the window's top-left is its position before the drag
\* displaced by the pointer movement since the press, the header and the
\* close control are displaced by the same vector, and the anchor of every
\* child is the window's top-left.
C14_DragMovesWindow ==
    (last.op = "tick" /\ last.dragging) =>
        /\ floating.topleft
             = VAdd(last.topleft, VSub(floating.pos, last.origin))
        /\ floating.header
             = VAdd(last.header, VSub(floating.pos, last.origin))
        /\ floating.close
             = VAdd(last.close, VSub(floating.pos, last.origin))
        /\ floating.anchor = floating.topleft

\* C25: Mouse.drag is the pointer position at the start of the current
\* press of button 0 minus the current pointer position: (0,0) on every
\* tick in which button 0 is not held and on the tick of the press, and
\* during the hold the position at the press minus the current position.
C25_DragFromPressStart ==
    (floating.built /\ last.op = "tick") =>
        IF mouse.hold[0]
        THEN Drag(floating) = VSub(floating.press_pos, floating.pos)
        ELSE Drag(floating) = <<0, 0>>

\* C26: at the end of any tick the pressed flag of a widget is true only if
\* button 0 was just pressed in that tick with the pointer inside the
\* widget; the flag never stays true over a tick without a press, also when
\* the widget is not dispatched in that tick.
C26_PressedIsEdgeTriggered ==
    (floating.built /\ last.op = "tick" /\ floating.pressed) =>
        mouse.click[0] /\ floating.over # "out"

---------------------------------------------------------------------------
(***************************************************************************)
(* MachineSpec: a StateMachine (engine/state_machine.py) with GameState    *)
(* objects whose hooks only record that they were called.  machine.calls   *)
(* holds the hooks invoked by the construction and, after an update_states,*)
(* those invoked by the last update_states.                                *)
(***************************************************************************)
\* the GameState objects; o1 and o3 carry the same name
StateObjects == {"o1", "o2", "o3", "o4"}

\* GameState.name
StateName(o) ==
    CASE o = "o1" -> "a" [] o = "o2" -> "b" [] o = "o3" -> "a" [] OTHER -> "c"

StateNames == {StateName(o) : o \in StateObjects}

\* no state registered under a name
NoState == "none"

\* check_conditions returning None
Nothing == "None"

\* StateMachine.add_state, one state
AddState(m, o) == [m EXCEPT !.states[StateName(o)] = o]

\* a hook of the state o is invoked
Call(m, hook, o) == [m EXCEPT !.calls = Append(@, <<hook, o>>)]

\* a mutant of MachineConstruct: the initial state is not entered
MachineConstructSilent(initial) ==
    AddState([built |-> TRUE, initial |-> StateName(initial),
              states |-> [n \in StateNames |-> NoState],
              active |-> initial, last |-> initial, calls |-> <<>>,
              updated |-> FALSE, raised |-> FALSE], initial)

\* StateMachine.__init__
MachineConstruct(initial) ==
    Call(AddState([built |-> TRUE, initial |-> StateName(initial),
                   states |-> [n \in StateNames |-> NoState],
                   active |-> initial, last |-> initial, calls |-> <<>>,
                   updated |-> FALSE, raised |-> FALSE], initial),
         "entry", initial)

\* StateMachine.current_state
CurrentState(m) == StateName(m.active)

\* StateMachine.last_state
LastState(m) == StateName(m.last)

\* self._active = self._states[name]; self._active.entry_actions(), with
\* the KeyError of a name that is not registered
Enter(m, name) ==
    IF m.states[name] = NoState
    THEN [m EXCEPT !.raised = TRUE]
    ELSE Call([m EXCEPT !.active = m.states[name]], "entry", m.states[name])

\* a mutant of SetCurrentState: the new state is entered before the old
\* one is left
SetCurrentStateEntryFirst(m, name) ==
    IF m.states[name] = NoState
    THEN [Call(m, "exit", m.active) EXCEPT !.last = m.active, !.raised = TRUE]
    ELSE [Call(Call(m, "entry", m.states[name]), "exit", m.active)
            EXCEPT !.last = m.active, !.active = m.states[name]]

\* the setter of StateMachine.current_state
SetCurrentState(m, name) ==
    Enter([Call(m, "exit", m.active) EXCEPT !.last = m.active], name)

\* StateMachine.update_states, with the value check_conditions returns
UpdateStates(m, returned) ==
    IF returned # Nothing THEN SetCurrentState(m, returned) ELSE m

MachineInit ==
    /\ GuiInit
    /\ mouse = MouseInitial
    /\ RegisterInit
    /\ widgets = [slot \in Slots |-> NoWidget]
    /\ dropdown = NoDropdown
    /\ floating = NoFloating
    /\ machine = NoMachine
    /\ timer = NoTimer

DoConstructMachine ==
    \E initial \in StateObjects :
        /\ ~machine.built
        /\ machine' = MachineConstruct(initial)
        /\ last' = [op |-> "construct", state |-> initial]
        /\ UNCHANGED <<guiVars, mouse, regVars, dropdown, floating, timer>>

DoAddState ==
    \E o \in StateObjects :
        /\ machine.built /\ ~machine.raised
        /\ machine' = AddState(machine, o)
        /\ last' = [op |-> "add_state", state |-> o]
        /\ UNCHANGED <<guiVars, mouse, regVars, dropdown, floating, timer>>

DoUpdateStates ==
    \E returned \in StateNames \cup {Nothing} :
        /\ machine.built /\ ~machine.raised
        /\ machine' = UpdateStates([machine EXCEPT !.calls = <<>>,
                                                   !.updated = TRUE],
                                   returned)
        /\ last' = [op |-> "update", returned |-> returned,
                    active |-> machine.active, last |-> machine.last]
        /\ UNCHANGED <<guiVars, mouse, regVars, dropdown, floating, timer>>

MachineNext == DoConstructMachine \/ DoAddState \/ DoUpdateStates

MachineSpec == MachineInit /\ [][MachineNext]_vars

\* C22: constructing a StateMachine with the initial state S invokes
\* S.entry_actions exactly once and no exit hook before any update_states
\* call, and leaves current_state = last_state = the name of S.
C22_ConstructEntersInitial ==
    (machine.built /\ ~machine.updated) =>
        /\ machine.calls = <<<<"entry", machine.active>>>>
        /\ StateName(machine.active) = machine.initial
        /\ CurrentState(machine) = machine.initial
        /\ LastState(machine) = machine.initial

\* C22 happens: a machine constructed with o1, another state of the same
\* name registered afterwards, no update_states yet
C22_Witness ==
    /\ machine.built /\ ~machine.updated
    /\ machine.active = "o1"
    /\ machine.states["a"] = "o3"

\* C23: on every update_states in which the active state S returns the name
\* of a registered state T (T = S included), exactly S.exit_actions and then
\* T.entry_actions are invoked, once each and in that order, and afterwards
\* current_state is T and last_state is S; when check_conditions returns
\* None no hook runs and both stay unchanged.
C23_TransitionHooks ==
    (machine.built /\ last.op = "update") =>
        IF last.returned = Nothing
        THEN /\ machine.calls = <<>>
             /\ machine.active = last.active
             /\ machine.last = last.last
        ELSE (machine.states[last.returned] # NoState) =>
                /\ machine.calls =
                       <<<<"exit", last.active>>,
                         <<"entry", machine.states[last.returned]>>>>
                /\ machine.active = machine.states[last.returned]
                /\ CurrentState(machine) = last.returned
                /\ machine.last = last.active
                /\ LastState(machine) = StateName(last.active)

\* C23 happens: the active state returned its own name, and was left and
\* entered again
C23_Witness ==
    /\ machine.built /\ last.op = "update"
    /\ last.returned = StateName(last.active)
    /\ machine.active = last.active
    /\ machine.calls = <<<<"exit", last.active>>, <<"entry", last.active>>>>

\* C33: a transition is atomic also on failure. When check_conditions
\* returns a name that was never registered with add_state, update_states
\* fails without having invoked the exit hook of the old state and without
\* changing current_state or last_state.
C33_FailedTransitionIsAtomic ==
    (last.op = "update" /\ machine.raised) =>
        /\ machine.calls = <<>>
        /\ machine.active = last.active
        /\ CurrentState(machine) = StateName(last.active)
        /\ machine.last = last.last
        /\ LastState(machine) = StateName(last.last)

---------------------------------------------------------------------------
(***************************************************************************)
(* TimerSpec: a Clock with one Timer (engine/timing.py).  Time is the      *)
(* integer pygame.time.get_ticks() reports.  Three fields of timer are     *)
(* history: invoked (calls of the method by the last operation), terminal  *)
(* (a non-periodic timer has fired and neither reset() nor force() ran     *)
(* since) and reset_at (the set holding the time of the last reset() if   *)
(* only Clock updates that did not fire came after it).                   *)
(***************************************************************************)
\* the clock is not followed beyond this time
MaxNow == 6

\* the longest step of the clock between two updates
MaxDt == 3

\* the longest period of a timer
MaxPeriod == 3

Periods == 1 .. MaxPeriod

\* period: int = None
NoPeriod == 0

\* no reset() to wait for
Never == {}

\* Timer.__init__ with Clock.now = 0.0
TimerConstruct(period, initial_value, periodic, running, method) ==
    [built |-> TRUE, now |-> 0, period |-> period, periodic |-> periodic,
     state_mark |-> 0 - (IF running THEN 0 ELSE 1) * period, modifier |-> 1,
     running |-> running, signal |-> <<initial_value, FALSE>>,
     method |-> method,
     invoked |-> 0, terminal |-> FALSE, reset_at |-> Never]

\* Timer.force
Force(t) ==
    [t EXCEPT !.running = TRUE, !.state_mark = 0 - t.period,
              !.terminal = FALSE, !.reset_at = Never]

\* Timer.reset
Reset(t, period) ==
    [t EXCEPT !.state_mark = t.now, !.running = TRUE,
              !.period = IF period # NoPeriod THEN period ELSE @,
              !.terminal = FALSE, !.reset_at = {t.now}]

\* Timer.delay
Delay(t, period) ==
    [t EXCEPT !.state_mark = t.now + period, !.reset_at = Never]

\* Timer.update: the method of a timer that fires
Invoke(t) ==
    IF t.method
    THEN [t EXCEPT !.invoked = @ + 1, !.method = t.periodic]
    ELSE t

\* Timer.update: the period has elapsed
Fire(t) ==
    Invoke([t EXCEPT !.signal[1] = TRUE, !.running = t.periodic,
                     !.state_mark = t.now,
                     !.terminal = ~t.periodic, !.reset_at = Never])

\* a mutant of TimerUpdate: a timer that fires keeps running
TimerUpdateKeepsRunning(t) ==
    IF t.running
    THEN IF t.now - t.state_mark >= t.period * t.modifier
         THEN [Fire([t EXCEPT !.signal = <<FALSE, t.signal[1]>>])
                 EXCEPT !.running = TRUE]
         ELSE [t EXCEPT !.signal = <<FALSE, t.signal[1]>>]
    ELSE [t EXCEPT !.signal[2] = t.signal[1]]

\* Timer.update
TimerUpdate(t) ==
    IF t.running
    THEN IF t.now - t.state_mark >= t.period * t.modifier
         THEN Fire([t EXCEPT !.signal = <<FALSE, t.signal[1]>>])
         ELSE [t EXCEPT !.signal = <<FALSE, t.signal[1]>>]
    ELSE [t EXCEPT !.signal[2] = t.signal[1]]

\* Clock.update with the time get_ticks() reports
ClockUpdate(t, now) == TimerUpdate([t EXCEPT !.now = now, !.invoked = 0])

\* the value of Timer.query
QueryResult(t) == t.signal[1]

\* Timer.query
Query(t, period) ==
    IF t.signal[1] /\ period # NoPeriod THEN Reset(t, period) ELSE t

\* the value of Timer.tick: signal[0] - signal[1] == 1
TickResult(t) == t.signal[1] /\ ~t.signal[2]

\* Timer.tick
Tick(t, period) ==
    IF TickResult(t) /\ period # NoPeriod THEN Reset(t, period) ELSE t

\* Timer.time_method
TimeMethod(t) ==
    IF ~t.method THEN Reset([t EXCEPT !.method = TRUE], NoPeriod) ELSE t

TimerInit ==
    /\ GuiInit
    /\ mouse = MouseInitial
    /\ RegisterInit
    /\ widgets = [slot \in Slots |-> NoWidget]
    /\ dropdown = NoDropdown
    /\ floating = NoFloating
    /\ machine = NoMachine
    /\ timer = NoTimer

\* the state after a call on the timer
TimerLand(t, op) ==
    /\ timer' = t
    /\ last' = [op |-> op, terminal |-> timer.built /\ timer.terminal,
                reset_at |-> IF timer.built THEN timer.reset_at ELSE Never]
    /\ UNCHANGED <<guiVars, mouse, regVars, dropdown, floating, machine>>

DoTimer ==
    \E period \in Periods, initial_value, periodic, running, method \in BOOLEAN :
        /\ ~timer.built
        /\ TimerLand(TimerConstruct(period, initial_value, periodic, running,
                                    method), "timer")

DoClockUpdate ==
    \E dt \in 0 .. MaxDt :
        /\ timer.built
        /\ timer.now + dt <= MaxNow
        /\ TimerLand(ClockUpdate(timer, timer.now + dt), "update")

DoForce == timer.built /\ TimerLand(Force([timer EXCEPT !.invoked = 0]), "force")

DoReset ==
    \E period \in Periods \cup {NoPeriod} :
        timer.built /\ TimerLand(Reset([timer EXCEPT !.invoked = 0], period), "reset")

DoDelay ==
    \E period \in Periods :
        timer.built /\ TimerLand(Delay([timer EXCEPT !.invoked = 0], period), "delay")

DoQuery ==
    \E period \in Periods \cup {NoPeriod} :
        timer.built /\ TimerLand(Query([timer EXCEPT !.invoked = 0], period), "query")

DoTimerTick ==
    \E period \in Periods \cup {NoPeriod} :
        timer.built /\ TimerLand(Tick([timer EXCEPT !.invoked = 0], period), "tick")

DoTimeMethod ==
    timer.built /\ TimerLand(TimeMethod([timer EXCEPT !.invoked = 0]), "time_method")

TimerNext ==
    \/ DoTimer
    \/ DoClockUpdate
    \/ DoForce
    \/ DoReset
    \/ DoDelay
    \/ DoQuery
    \/ DoTimerTick
    \/ DoTimeMethod

TimerSpec == TimerInit /\ [][TimerNext]_vars

\* C24: once a non-periodic Timer has fired, Clock updates with no reset()
\* or force() never invoke its method again, never make tick() report a
\* rising edge and leave it not running; after reset() it fires again at
\* the first Clock update at which the period has elapsed.
C24_TerminalUntilReset ==
    timer.built =>
        /\ timer.terminal => ~timer.running
        /\ (last.op = "update" /\ last.terminal) =>
               /\ timer.invoked = 0
               /\ ~TickResult(timer)
               /\ timer.terminal
        /\ (last.op = "update" /\ ~timer.periodic) =>
               \A at \in last.reset_at :
                   timer.now - at >= timer.period =>
                       /\ QueryResult(timer)
                       /\ timer.terminal
                       /\ timer.state_mark = timer.now

\* C24 happens: a timer that had fired was reset at time 3 and has fired
\* again at time 6, after an update at which the period had not elapsed
C24_Witness ==
    /\ timer.built /\ ~timer.periodic /\ timer.period = 2
    /\ last.op = "update" /\ last.reset_at = {3} /\ timer.now = 6
    /\ timer.terminal /\ TickResult(timer)

=========================================================================
